---- MODULE Spec2Model ----
(***************************************************************************)
(* Inventory ledger and sale-transaction engine of the POS system          *)
(* (src/sales_utils.py): the legacy inventory table, the bag/item tables,  *)
(* the stock history journal, the cart sale, the reconciliation ledger and *)
(* the loss-event workflow, modelled table by table.                       *)
(*                                                                         *)
(* Money is kept in integer cents.  SQL NULL is a flag (has_old) or the id *)
(* 0, which AUTOINCREMENT never hands out.                                 *)
(***************************************************************************)
EXTENDS Integers, Sequences, FiniteSets, TLC

\* ------------------------------------------------------------- bounds
\* Largest quantity in a cart line, a restock, a loss or an opening stock.
MaxQty == 2
\* Longest cart.
MaxLines == 2
\* Largest quantity in the calls and opening stocks of Spec and SpecConc, and the
\* loss events one run of Spec reports.
MaxSmallQty == 1
MaxEvents == 1
\* Most calls of the bag-management operations in one run of SpecBag.
MaxBagOps == 2

\* ------------------------------------------------------------- domains
Names == {"Candles", "RoseVeil"}
Cashiers == {"c1", "c2"}
TxIds == {"TX-1", "TX-2"}
TieOrders == {"asc", "desc"}
Today == "d1"
NoId == 0

\* ------------------------------------------------------------- state
VARIABLES
    inventory,    \* table inventory: item -> quantity (the rows that exist)
    bags,         \* table bags: id -> bag_name
    items,        \* table items: id -> [bag_id, item_name, price, stock]
    history,      \* table item_stock_history, in insertion order
    sales,        \* table sales, in insertion order
    sale_items,   \* table sale_items, in insertion order
    recon,        \* table item_reconciliation: <<item, date>> -> row
    adjustments,  \* table inventory_adjustments, index = id
    seq,          \* table sqlite_sequence: the last AUTOINCREMENT id of bags, items
    result,       \* what the last call returned or raised
    writer,       \* the connection holding the write lock ("" when free)
    pc,           \* per cashier connection: where its create_sale call is
    req,          \* per cashier connection: the call's arguments
    sdata,        \* per cashier connection: the stock_data it validated with
    calls,        \* calls made so far, per operation
    stock0,       \* the combined stock of each item when the run began
    form,         \* the stock reconciliation window: its qty_map and entry fields
    getdb         \* a call of get_db: its loop position and what it returned

tables == <<inventory, bags, items, history, sales, sale_items, recon, adjustments, seq>>
conns == <<writer, pc, req, sdata>>
vars == <<inventory, bags, items, history, sales, sale_items, recon, adjustments, seq,
          result, writer, pc, req, sdata, calls, stock0, form, getdb>>

\* The database as one value: what a transaction reads and what it commits.
DB ==
    [inventory |-> inventory, bags |-> bags, items |-> items, history |-> history,
     sales |-> sales, sale_items |-> sale_items, recon |-> recon,
     adjustments |-> adjustments, seq |-> seq]

Store(d) ==
    /\ inventory' = d.inventory
    /\ bags' = d.bags
    /\ items' = d.items
    /\ history' = d.history
    /\ sales' = d.sales
    /\ sale_items' = d.sale_items
    /\ recon' = d.recon
    /\ adjustments' = d.adjustments
    /\ seq' = d.seq

EmptyFn == [x \in {} |-> 0]

\* f with key k set to v, the key added when absent (INSERT or UPDATE of a row).
Put(f, k, v) == [x \in (DOMAIN f) \cup {k} |-> IF x = k THEN v ELSE f[x]]

MaxId(S) == IF S = {} THEN 0 ELSE CHOOSE i \in S : \A j \in S : j <= i

Min(a, b) == IF a < b THEN a ELSE b

\* ------------------------------------------------------------- results
NoResult ==
    [op |-> "none", ok |-> TRUE, err |-> "", item |-> "", id |-> NoId, tx |-> "",
     total |-> 0, available |-> 0, requested |-> 0, cart |-> <<>>]

Ok(op) == [NoResult EXCEPT !.op = op]

Fail(op, err) == [NoResult EXCEPT !.op = op, !.ok = FALSE, !.err = err]

\* ------------------------------------------------------------- stock store
\* SELECT COALESCE(quantity,0) FROM inventory WHERE item=?  (no row: 0)
InvQty(d, name) == IF name \in DOMAIN d.inventory THEN d.inventory[name] ELSE 0

RowsOf(d, name) == {i \in DOMAIN d.items : d.items[i].item_name = name}

RECURSIVE StockSum(_, _)
StockSum(d, S) ==
    IF S = {} THEN 0
    ELSE LET i == CHOOSE j \in S : TRUE IN d.items[i].stock + StockSum(d, S \ {i})

\* SELECT COALESCE(SUM(stock),0) FROM items WHERE item_name=?
BagQty(d, name) == StockSum(d, RowsOf(d, name))

\* bags JOIN items: the bag's name, 'Unknown' when the join finds no bag.
BagNameOf(d, item_id) ==
    IF d.items[item_id].bag_id \in DOMAIN d.bags
    THEN d.bags[d.items[item_id].bag_id] ELSE "Unknown"

\* ------------------------------------------------------------- history journal
\* Variant: change_amount computed as old_stock - new_stock.
LogStockHistory_Reversed(d, item_id, item_name, bag_name, old_stock, new_stock, change_type, changed_by, sale_id, transaction_id) ==
    [d EXCEPT !.history = Append(@,
        [item_id |-> item_id, item_name |-> item_name, bag_name |-> bag_name,
         old_stock |-> old_stock, new_stock |-> new_stock,
         change_amount |-> old_stock - new_stock, change_type |-> change_type,
         changed_by |-> changed_by, sale_id |-> sale_id,
         transaction_id |-> transaction_id])]

\* _log_stock_history
LogStockHistory(d, item_id, item_name, bag_name, old_stock, new_stock, change_type, changed_by, sale_id, transaction_id) ==
    [d EXCEPT !.history = Append(@,
        [item_id |-> item_id, item_name |-> item_name, bag_name |-> bag_name,
         old_stock |-> old_stock, new_stock |-> new_stock,
         change_amount |-> new_stock - old_stock, change_type |-> change_type,
         changed_by |-> changed_by, sale_id |-> sale_id,
         transaction_id |-> transaction_id])]

\* ------------------------------------------------------------- reconciliation
\* Variant: _ensure_old_stock_row writing old_stock whether or not it is set.
EnsureOldStockRow_Overwrite(d, item, date, current_qty) ==
    LET k == <<item, date>> IN
    IF k \notin DOMAIN d.recon
    THEN [d EXCEPT !.recon = Put(@, k,
            [has_old |-> TRUE, old_stock |-> current_qty, new_stock |-> 0,
             loss_drawn |-> 0])]
    ELSE [d EXCEPT !.recon[k].has_old = TRUE, !.recon[k].old_stock = current_qty]

\* _ensure_old_stock_row with current_qty given: seed old_stock once.
EnsureOldStockRow(d, item, date, current_qty) ==
    LET k == <<item, date>> IN
    IF k \notin DOMAIN d.recon
    THEN [d EXCEPT !.recon = Put(@, k,
            [has_old |-> TRUE, old_stock |-> current_qty, new_stock |-> 0,
             loss_drawn |-> 0])]
    ELSE IF ~d.recon[k].has_old
    THEN [d EXCEPT !.recon[k].has_old = TRUE, !.recon[k].old_stock = current_qty]
    ELSE d

\* INSERT ... ON CONFLICT(item, date) DO UPDATE SET new_stock = new_stock + qty
AddNewStock(d, item, date, qty) ==
    LET k == <<item, date>> IN
    IF k \in DOMAIN d.recon
    THEN [d EXCEPT !.recon[k].new_stock = @ + qty]
    ELSE [d EXCEPT !.recon = Put(@, k,
            [has_old |-> FALSE, old_stock |-> 0, new_stock |-> qty, loss_drawn |-> 0])]

\* Variant: ON CONFLICT(item, date) DO UPDATE SET loss_drawn = excluded.loss_drawn.
AddLossDrawn_Overwrite(d, item, date, qty) ==
    LET k == <<item, date>> IN
    IF k \in DOMAIN d.recon
    THEN [d EXCEPT !.recon[k].loss_drawn = qty]
    ELSE [d EXCEPT !.recon = Put(@, k,
            [has_old |-> FALSE, old_stock |-> 0, new_stock |-> 0, loss_drawn |-> qty])]

\* INSERT ... ON CONFLICT(item, date) DO UPDATE SET loss_drawn = loss_drawn + qty
AddLossDrawn(d, item, date, qty) ==
    LET k == <<item, date>> IN
    IF k \in DOMAIN d.recon
    THEN [d EXCEPT !.recon[k].loss_drawn = @ + qty]
    ELSE [d EXCEPT !.recon = Put(@, k,
            [has_old |-> FALSE, old_stock |-> 0, new_stock |-> 0, loss_drawn |-> qty])]

\* ------------------------------------------------------------- cart sale
Subtotal(line) == line.quantity * line.unit_price

\* Variant: total = subtotal instead of total += subtotal.
CartTotal_LastLine(cart) ==
    IF cart = <<>> THEN 0 ELSE Subtotal(cart[Len(cart)])

RECURSIVE CartTotal(_)
CartTotal(cart) ==
    IF cart = <<>> THEN 0 ELSE Subtotal(Head(cart)) + CartTotal(Tail(cart))

CartNames(cart) == {cart[i].item : i \in 1..Len(cart)}

\* Lines the normalisation loop raises on (qty <= 0).
InvalidLines(cart) == {i \in 1..Len(cart) : cart[i].quantity <= 0}

\* stock_data: per distinct cart item, the legacy, bag and combined quantities.
StockData(d, cart) ==
    [n \in CartNames(cart) |->
        [inventory |-> InvQty(d, n), bags |-> BagQty(d, n),
         total |-> InvQty(d, n) + BagQty(d, n)]]

\* Variant: the validation lets one unit too many through.
ShortLines_OffByOne(cart, sd) ==
    {i \in 1..Len(cart) : cart[i].quantity > sd[cart[i].item].total + 1}

\* Lines the validation loop raises on.
ShortLines(cart, sd) == {i \in 1..Len(cart) : cart[i].quantity > sd[cart[i].item].total}

First(S) == CHOOSE i \in S : \A j \in S : i <= j

\* The normalisation and validation loops: "ok", or the error raised.
SaleValidate(d, cart) ==
    IF InvalidLines(cart) # {}
    THEN [Fail("sale", "InvalidQuantity") EXCEPT
            !.item = cart[First(InvalidLines(cart))].item,
            !.requested = cart[First(InvalidLines(cart))].quantity, !.cart = cart]
    ELSE LET sd == StockData(d, cart) IN
         IF ShortLines(cart, sd) # {}
         THEN LET l == cart[First(ShortLines(cart, sd))] IN
              [Fail("sale", "InsufficientStock") EXCEPT
                 !.item = l.item, !.available = sd[l.item].total,
                 !.requested = l.quantity, !.cart = cart]
         ELSE [Ok("sale") EXCEPT !.cart = cart]

\* INSERT INTO sales: transaction_id is UNIQUE.
TxTaken(d, tx) == \E i \in 1..Len(d.sales) : d.sales[i].transaction_id = tx

InsertHeader(d, tx, cashier, total) ==
    [d EXCEPT !.sales = Append(@,
        [id |-> Len(d.sales) + 1, transaction_id |-> tx, cashier |-> cashier,
         total |-> total, status |-> "ACTIVE"])]

InsertSaleItem(d, sale_id, line) ==
    [d EXCEPT !.sale_items = Append(@,
        [sale_id |-> sale_id, item |-> line.item, quantity |-> line.quantity,
         unit_price |-> line.unit_price, subtotal |-> Subtotal(line)])]

\* Variant: the legacy take is not counted off the remaining quantity.
DeductInventory_NotCounted(d, name, sd, remaining) ==
    IF sd[name].inventory > 0 /\ remaining > 0
    THEN LET cur_qty == InvQty(d, name)
             take == Min(cur_qty, remaining)
         IN [d |-> [d EXCEPT !.inventory[name] = cur_qty - take], remaining |-> remaining]
    ELSE [d |-> d, remaining |-> remaining]

\* "Deduct from inventory": the legacy tier gives min(current, remaining).
DeductInventory(d, name, sd, remaining) ==
    IF sd[name].inventory > 0 /\ remaining > 0
    THEN LET cur_qty == InvQty(d, name)
             take == Min(cur_qty, remaining)
         IN IF take > 0
            THEN [d |-> [d EXCEPT !.inventory[name] = cur_qty - take],
                  remaining |-> remaining - take]
            ELSE [d |-> d, remaining |-> remaining]
    ELSE [d |-> d, remaining |-> remaining]

\* Variant: ORDER BY stock ascending.
Before_SmallestFirst(d, i, j, tie) ==
    \/ d.items[i].stock < d.items[j].stock
    \/ /\ d.items[i].stock = d.items[j].stock
       /\ IF tie = "asc" THEN i <= j ELSE i >= j

\* SELECT ... WHERE item_name=? AND stock>0 ORDER BY stock DESC, as a sequence of
\* ids; rows of equal stock come in the order tie names.
Before(d, i, j, tie) ==
    \/ d.items[i].stock > d.items[j].stock
    \/ /\ d.items[i].stock = d.items[j].stock
       /\ IF tie = "asc" THEN i <= j ELSE i >= j

RECURSIVE Sorted(_, _, _)
Sorted(d, S, tie) ==
    IF S = {} THEN <<>>
    ELSE LET i == CHOOSE x \in S : \A y \in S : Before(d, x, y, tie)
         IN <<i>> \o Sorted(d, S \ {i}, tie)

BagRows(d, name, tie) ==
    Sorted(d, {i \in RowsOf(d, name) : d.items[i].stock > 0}, tie)

\* Variant: the journal entry's old_stock is read after the row was updated.
DeductBagRows_LogAfterUpdate(d, rows, remaining, cashier, sale_id, tx) ==
    IF rows = <<>> \/ remaining <= 0
    THEN [d |-> d, remaining |-> remaining]
    ELSE LET b_id == Head(rows)
             take == Min(d.items[b_id].stock, remaining)
             new_b == d.items[b_id].stock - take
             d1 == [d EXCEPT !.items[b_id].stock = new_b]
             d2 == LogStockHistory(d1, b_id, d.items[b_id].item_name,
                                   BagNameOf(d1, b_id), d1.items[b_id].stock, new_b,
                                   "SALE", cashier, sale_id, tx)
         IN [d |-> d2, remaining |-> remaining - take]

\* The loop over bag_rows: each row gives min(stock, remaining) and logs a SALE entry.
RECURSIVE DeductBagRows(_, _, _, _, _, _)
DeductBagRows(d, rows, remaining, cashier, sale_id, tx) ==
    IF rows = <<>> \/ remaining <= 0
    THEN [d |-> d, remaining |-> remaining]
    ELSE LET b_id == Head(rows)
             b_stock == d.items[b_id].stock
             take == Min(b_stock, remaining)
             new_b == b_stock - take
             d1 == [d EXCEPT !.items[b_id].stock = new_b]
             d2 == LogStockHistory(d1, b_id, d.items[b_id].item_name,
                                   BagNameOf(d1, b_id), b_stock, new_b, "SALE",
                                   cashier, sale_id, tx)
         IN DeductBagRows(d2, Tail(rows), remaining - take, cashier, sale_id, tx)

\* Variant: the bag rows are drained before the legacy row.
SaleLine_BagsFirst(d, line, sd, sale_date, cashier, sale_id, tx, tie) ==
    LET d1 == InsertSaleItem(d, sale_id, line)
        d2 == EnsureOldStockRow(d1, line.item, sale_date, sd[line.item].total)
        bag == IF sd[line.item].bags > 0
               THEN DeductBagRows(d2, BagRows(d2, line.item, tie), line.quantity,
                                  cashier, sale_id, tx)
               ELSE [d |-> d2, remaining |-> line.quantity]
    IN DeductInventory(bag.d, line.item, sd, bag.remaining)

\* One pass of the loop over the normalised lines; remaining > 0 at its end raises.
SaleLine(d, line, sd, sale_date, cashier, sale_id, tx, tie) ==
    LET d1 == InsertSaleItem(d, sale_id, line)
        d2 == EnsureOldStockRow(d1, line.item, sale_date, sd[line.item].total)
        inv == DeductInventory(d2, line.item, sd, line.quantity)
        bag == IF inv.remaining > 0 /\ sd[line.item].bags > 0
               THEN DeductBagRows(inv.d, BagRows(inv.d, line.item, tie), inv.remaining,
                                  cashier, sale_id, tx)
               ELSE inv
    IN bag

RECURSIVE SaleLines(_, _, _, _, _, _, _, _)
SaleLines(d, cart, sd, sale_date, cashier, sale_id, tx, tie) ==
    IF cart = <<>> THEN [d |-> d, remaining |-> 0]
    ELSE LET r == SaleLine(d, Head(cart), sd, sale_date, cashier, sale_id, tx, tie)
         IN IF r.remaining > 0 THEN r
            ELSE SaleLines(r.d, Tail(cart), sd, sale_date, cashier, sale_id, tx, tie)

\* Variant: the defensive raise after the deduction loops is left out.
SaleWrite_NoDefensiveRaise(d, cashier, cart, sd, tx, tie) ==
    IF TxTaken(d, tx)
    THEN [db |-> d, res |-> [Fail("sale", "StorageFailure") EXCEPT !.cart = cart]]
    ELSE LET d1 == InsertHeader(d, tx, cashier, CartTotal(cart))
             sale_id == Len(d1.sales)
             r == SaleLines(d1, cart, sd, Today, cashier, sale_id, tx, tie)
         IN [db |-> r.d, res |-> [Ok("sale") EXCEPT !.id = sale_id, !.tx = tx,
                                     !.total = CartTotal(cart), !.cart = cart]]

\* The writes of a validated sale: header, lines, deductions; commit or rollback.
SaleWrite(d, cashier, cart, sd, tx, tie) ==
    IF TxTaken(d, tx)
    THEN [db |-> d, res |-> [Fail("sale", "StorageFailure") EXCEPT !.cart = cart]]
    ELSE LET d1 == InsertHeader(d, tx, cashier, CartTotal(cart))
             sale_id == Len(d1.sales)
             r == SaleLines(d1, cart, sd, Today, cashier, sale_id, tx, tie)
         IN IF r.remaining > 0
            THEN [db |-> d, res |-> [Fail("sale", "DeductionFailed") EXCEPT
                                        !.cart = cart, !.requested = r.remaining]]
            ELSE [db |-> r.d, res |-> [Ok("sale") EXCEPT !.id = sale_id, !.tx = tx,
                                        !.total = CartTotal(cart), !.cart = cart]]

\* create_sale_with_items as one transaction.
CreateSaleTx(d, cashier, cart, tx, tie) ==
    LET v == SaleValidate(d, cart) IN
    IF ~v.ok THEN [db |-> d, res |-> v]
    ELSE SaleWrite(d, cashier, cart, StockData(d, cart), tx, tie)

\* ------------------------------------------------------------- failing statements
\* A statement of create_sale_with_items that raises (disk full, lock lost, a
\* constraint): the INSERT of the header, or for cart line `line` the INSERT of
\* the sale_items row, the UPDATE of inventory, the UPDATE of the first bag row,
\* or the INSERT of that row's journal entry.
Statements == {"header", "sale_item", "inventory", "items", "history"}

\* What the transaction has written when the statement is reached; reached says
\* whether this call executes that statement at all.
WrittenBefore(d, cashier, cart, sd, tx, tie, fault) ==
    IF fault.stmt = "header" THEN [reached |-> TRUE, d |-> d]
    ELSE IF fault.line > Len(cart) \/ TxTaken(d, tx) THEN [reached |-> FALSE, d |-> d]
    ELSE LET d1 == InsertHeader(d, tx, cashier, CartTotal(cart))
             sale_id == Len(d1.sales)
             line == cart[fault.line]
             prev == SaleLines(d1, SubSeq(cart, 1, fault.line - 1), sd, Today, cashier,
                               sale_id, tx, tie)
             d2 == InsertSaleItem(prev.d, sale_id, line)
             d3 == EnsureOldStockRow(d2, line.item, Today, sd[line.item].total)
             inv == DeductInventory(d3, line.item, sd, line.quantity)
             rows == BagRows(inv.d, line.item, tie)
         IN IF prev.remaining > 0 THEN [reached |-> FALSE, d |-> d]
            ELSE IF fault.stmt = "sale_item" THEN [reached |-> TRUE, d |-> prev.d]
            ELSE IF fault.stmt = "inventory"
            THEN [reached |-> inv.remaining < line.quantity, d |-> d3]
            ELSE IF ~(inv.remaining > 0 /\ sd[line.item].bags > 0 /\ rows # <<>>)
            THEN [reached |-> FALSE, d |-> d]
            ELSE IF fault.stmt = "items" THEN [reached |-> TRUE, d |-> inv.d]
            ELSE [reached |-> TRUE,
                  d |-> [inv.d EXCEPT !.items[Head(rows)].stock =
                                         @ - Min(@, inv.remaining)]]

\* Variant: the except clause leaves the statements already executed in place.
Rollback_KeepWrites(d, written) == written

\* except Exception: conn.rollback(): the database is as it was at BEGIN.
Rollback(d, written) == d

\* create_sale_with_items in which the statement fault raises, if it is reached.
CreateSaleFailingTx(d, cashier, cart, tx, tie, fault) ==
    LET v == SaleValidate(d, cart) IN
    IF ~v.ok THEN [db |-> d, res |-> v]
    ELSE LET w == WrittenBefore(d, cashier, cart, StockData(d, cart), tx, tie, fault) IN
         IF w.reached
         THEN [db |-> Rollback(d, w.d),
               res |-> [Fail("sale", "StorageFailure") EXCEPT
                          !.cart = cart, !.item = fault.stmt, !.requested = fault.line]]
         ELSE SaleWrite(d, cashier, cart, StockData(d, cart), tx, tie)

\* ------------------------------------------------------------- ledger
\* UPDATE inventory SET quantity=? WHERE item=?  (no row: nothing changes)
SetInvQty(d, item, qty) ==
    IF item \in DOMAIN d.inventory THEN [d EXCEPT !.inventory[item] = qty] ELSE d

\* Variant: record_restock without the check of the sign of qty.
RecordRestockTx_Unchecked(d, item, qty) ==
    LET cur_qty == InvQty(d, item)
        d1 == EnsureOldStockRow(d, item, Today, cur_qty)
        d2 == [d1 EXCEPT !.inventory = Put(@, item, cur_qty + qty)]
        d3 == AddNewStock(d2, item, Today, qty)
    IN [db |-> d3, res |-> [Ok("restock") EXCEPT !.item = item, !.requested = qty]]

\* record_restock
RecordRestockTx(d, item, qty) ==
    IF qty < 0
    THEN [db |-> d, res |-> [Fail("restock", "ValueError") EXCEPT
                                !.item = item, !.requested = qty]]
    ELSE LET cur_qty == InvQty(d, item)
             d1 == EnsureOldStockRow(d, item, Today, cur_qty)
             d2 == [d1 EXCEPT !.inventory = Put(@, item, cur_qty + qty)]
             d3 == AddNewStock(d2, item, Today, qty)
         IN [db |-> d3, res |-> [Ok("restock") EXCEPT !.item = item, !.requested = qty]]

\* Variant: record_loss_drawn without the comparison of qty with cur_qty.
RecordLossDrawnTx_Unchecked(d, item, qty) ==
    IF qty < 0
    THEN [db |-> d, res |-> [Fail("loss", "ValueError") EXCEPT
                                !.item = item, !.requested = qty]]
    ELSE LET cur_qty == InvQty(d, item)
             d1 == EnsureOldStockRow(d, item, Today, cur_qty)
             d2 == SetInvQty(d1, item, cur_qty - qty)
             d3 == AddLossDrawn(d2, item, Today, qty)
         IN [db |-> d3, res |-> [Ok("loss") EXCEPT !.item = item, !.requested = qty]]

\* Variant: record_loss_drawn comparing qty with the legacy and bag stock together.
RecordLossDrawnTx_Combined(d, item, qty) ==
    IF qty < 0
    THEN [db |-> d, res |-> [Fail("loss", "ValueError") EXCEPT
                                !.item = item, !.requested = qty]]
    ELSE LET cur_qty == InvQty(d, item) + BagQty(d, item) IN
         IF qty > cur_qty
         THEN [db |-> d, res |-> [Fail("loss", "InsufficientStock") EXCEPT
                                     !.item = item, !.available = cur_qty,
                                     !.requested = qty]]
         ELSE LET d1 == EnsureOldStockRow(d, item, Today, cur_qty)
                  d2 == SetInvQty(d1, item, cur_qty - qty)
                  d3 == AddLossDrawn(d2, item, Today, qty)
              IN [db |-> d3, res |-> [Ok("loss") EXCEPT !.item = item, !.requested = qty]]

\* record_loss_drawn
RecordLossDrawnTx(d, item, qty) ==
    IF qty < 0
    THEN [db |-> d, res |-> [Fail("loss", "ValueError") EXCEPT
                                !.item = item, !.requested = qty]]
    ELSE LET cur_qty == InvQty(d, item) IN
         IF qty > cur_qty
         THEN [db |-> d, res |-> [Fail("loss", "InsufficientStock") EXCEPT
                                     !.item = item, !.available = cur_qty,
                                     !.requested = qty]]
         ELSE LET d1 == EnsureOldStockRow(d, item, Today, cur_qty)
                  d2 == SetInvQty(d1, item, cur_qty - qty)
                  d3 == AddLossDrawn(d2, item, Today, qty)
              IN [db |-> d3, res |-> [Ok("loss") EXCEPT !.item = item, !.requested = qty]]

\* ------------------------------------------------------------- loss events
\* Variant: the INSERT leaves the applied column to its DEFAULT 1.
InsertAdjustment_DefaultApplied(d, item, qty, occ_date, applied) ==
    [d EXCEPT !.adjustments = Append(@,
        [item |-> item, qty |-> qty, occ_date |-> occ_date, status |-> "PENDING",
         applied |-> TRUE])]

InsertAdjustment(d, item, qty, occ_date, applied) ==
    [d EXCEPT !.adjustments = Append(@,
        [item |-> item, qty |-> qty, occ_date |-> occ_date, status |-> "PENDING",
         applied |-> applied])]

\* report_loss_event
ReportLossEventTx(d, item, qty, occ_date, apply_immediately) ==
    IF qty <= 0
    THEN [db |-> d, res |-> [Fail("report", "ValueError") EXCEPT
                                !.item = item, !.requested = qty]]
    ELSE IF apply_immediately
    THEN LET cur_qty == InvQty(d, item) IN
         IF qty > cur_qty
         THEN [db |-> d, res |-> [Fail("report", "InsufficientStock") EXCEPT
                                     !.item = item, !.available = cur_qty,
                                     !.requested = qty]]
         ELSE LET d1 == EnsureOldStockRow(d, item, occ_date, cur_qty)
                  d2 == SetInvQty(d1, item, cur_qty - qty)
                  d3 == AddLossDrawn(d2, item, occ_date, qty)
                  d4 == InsertAdjustment(d3, item, qty, occ_date, TRUE)
              IN [db |-> d4, res |-> [Ok("report") EXCEPT
                                        !.item = item, !.requested = qty,
                                        !.id = Len(d4.adjustments)]]
    ELSE LET d4 == InsertAdjustment(d, item, qty, occ_date, FALSE)
         IN [db |-> d4, res |-> [Ok("report") EXCEPT
                                   !.item = item, !.requested = qty,
                                   !.id = Len(d4.adjustments)]]

\* The early return of approve_loss_event on an event already APPROVED.
AlreadyApproved(event_id) == [Ok("approve") EXCEPT !.id = event_id, !.err = "Already approved"]

\* Variant: approve_loss_event applying the loss without comparing qty with cur_qty.
ApproveLossEventTx_Unchecked(d, event_id) ==
    IF event_id \notin 1..Len(d.adjustments)
    THEN [db |-> d, res |-> [Fail("approve", "NotFound") EXCEPT !.id = event_id]]
    ELSE LET ev == d.adjustments[event_id] IN
         IF ev.status = "APPROVED"
         THEN [db |-> d, res |-> AlreadyApproved(event_id)]
         ELSE LET cur_qty == InvQty(d, ev.item)
                  d1 == IF ev.applied THEN d
                        ELSE AddLossDrawn(
                               SetInvQty(EnsureOldStockRow(d, ev.item, ev.occ_date, cur_qty),
                                         ev.item, cur_qty - ev.qty),
                               ev.item, ev.occ_date, ev.qty)
              IN [db |-> [d1 EXCEPT !.adjustments[event_id].status = "APPROVED",
                                    !.adjustments[event_id].applied = TRUE],
                  res |-> [Ok("approve") EXCEPT !.id = event_id, !.item = ev.item]]

\* approve_loss_event
ApproveLossEventTx(d, event_id) ==
    IF event_id \notin 1..Len(d.adjustments)
    THEN [db |-> d, res |-> [Fail("approve", "NotFound") EXCEPT !.id = event_id]]
    ELSE LET ev == d.adjustments[event_id] IN
         IF ev.status = "APPROVED"
         THEN [db |-> d, res |-> AlreadyApproved(event_id)]
         ELSE IF ~ev.applied
         THEN LET cur_qty == InvQty(d, ev.item) IN
              IF ev.qty > cur_qty
              THEN [db |-> d, res |-> [Fail("approve", "InsufficientStock") EXCEPT
                                          !.id = event_id, !.item = ev.item,
                                          !.available = cur_qty, !.requested = ev.qty]]
              ELSE LET d1 == EnsureOldStockRow(d, ev.item, ev.occ_date, cur_qty)
                       d2 == SetInvQty(d1, ev.item, cur_qty - ev.qty)
                       d3 == AddLossDrawn(d2, ev.item, ev.occ_date, ev.qty)
                       d4 == [d3 EXCEPT !.adjustments[event_id].status = "APPROVED",
                                        !.adjustments[event_id].applied = TRUE]
                   IN [db |-> d4, res |-> [Ok("approve") EXCEPT
                                             !.id = event_id, !.item = ev.item]]
         ELSE [db |-> [d EXCEPT !.adjustments[event_id].status = "APPROVED",
                                !.adjustments[event_id].applied = TRUE],
               res |-> [Ok("approve") EXCEPT !.id = event_id, !.item = ev.item]]

\* Variant: the compensation clears the day's loss_drawn.
SubLossDrawn_Reset(d, item, date, qty) ==
    LET k == <<item, date>> IN
    IF k \in DOMAIN d.recon THEN [d EXCEPT !.recon[k].loss_drawn = 0] ELSE d

\* UPDATE item_reconciliation SET loss_drawn = CASE WHEN loss_drawn > q THEN
\* loss_drawn - q ELSE 0 END WHERE item=? AND date=?
SubLossDrawn(d, item, date, qty) ==
    LET k == <<item, date>> IN
    IF k \in DOMAIN d.recon
    THEN [d EXCEPT !.recon[k].loss_drawn = IF @ > qty THEN @ - qty ELSE 0]
    ELSE d

\* The early return of reject_loss_event on an event already REJECTED.
AlreadyRejected(event_id) == [Ok("reject") EXCEPT !.id = event_id, !.err = "Already rejected"]

\* Variant: reject_loss_event with neither the early return nor the test of applied.
RejectLossEventTx_AlwaysCompensate(d, event_id) ==
    IF event_id \notin 1..Len(d.adjustments)
    THEN [db |-> d, res |-> [Fail("reject", "NotFound") EXCEPT !.id = event_id]]
    ELSE LET ev == d.adjustments[event_id]
             d1 == SubLossDrawn(SetInvQty(d, ev.item, InvQty(d, ev.item) + ev.qty),
                                ev.item, ev.occ_date, ev.qty)
             d2 == [d1 EXCEPT !.adjustments[event_id].status = "REJECTED",
                              !.adjustments[event_id].applied = FALSE]
         IN [db |-> d2, res |-> [Ok("reject") EXCEPT !.id = event_id, !.item = ev.item]]

\* Variant: reject_loss_event compensating but leaving the applied flag as it was.
RejectLossEventTx_KeepApplied(d, event_id) ==
    IF event_id \notin 1..Len(d.adjustments)
    THEN [db |-> d, res |-> [Fail("reject", "NotFound") EXCEPT !.id = event_id]]
    ELSE LET ev == d.adjustments[event_id] IN
         IF ev.status = "REJECTED"
         THEN [db |-> d, res |-> AlreadyRejected(event_id)]
         ELSE LET d1 == IF ev.applied
                        THEN SubLossDrawn(SetInvQty(d, ev.item, InvQty(d, ev.item) + ev.qty),
                                          ev.item, ev.occ_date, ev.qty)
                        ELSE d
                  d2 == [d1 EXCEPT !.adjustments[event_id].status = "REJECTED"]
              IN [db |-> d2, res |-> [Ok("reject") EXCEPT !.id = event_id, !.item = ev.item]]

\* reject_loss_event
RejectLossEventTx(d, event_id) ==
    IF event_id \notin 1..Len(d.adjustments)
    THEN [db |-> d, res |-> [Fail("reject", "NotFound") EXCEPT !.id = event_id]]
    ELSE LET ev == d.adjustments[event_id] IN
         IF ev.status = "REJECTED"
         THEN [db |-> d, res |-> AlreadyRejected(event_id)]
         ELSE LET d1 == IF ev.applied
                        THEN SubLossDrawn(SetInvQty(d, ev.item, InvQty(d, ev.item) + ev.qty),
                                          ev.item, ev.occ_date, ev.qty)
                        ELSE d
                  d2 == [d1 EXCEPT !.adjustments[event_id].status = "REJECTED",
                                   !.adjustments[event_id].applied = FALSE]
              IN [db |-> d2, res |-> [Ok("reject") EXCEPT !.id = event_id, !.item = ev.item]]

\* ------------------------------------------------------------- bags and items
\* An optional argument: <<>> is None, <<v>> a value.
None == <<>>

\* str.strip() on the names the model passes in.
Strip(str) ==
    CASE str = " " -> ""
      [] str = " BagA " -> "BagA"
      [] str = " BagC " -> "BagC"
      [] OTHER -> str

\* create_bag: an existing name gives back the existing id.
CreateBagTx(d, bag_name) ==
    LET name == Strip(bag_name) IN
    IF name = ""
    THEN [db |-> d, res |-> [Fail("create_bag", "ValueError") EXCEPT !.item = bag_name]]
    ELSE IF \E b \in DOMAIN d.bags : d.bags[b] = name
    THEN [db |-> d, res |-> [Ok("create_bag") EXCEPT
                               !.id = CHOOSE b \in DOMAIN d.bags : d.bags[b] = name,
                               !.item = bag_name]]
    ELSE LET id == d.seq.bags + 1
         IN [db |-> [d EXCEPT !.bags = Put(@, id, name), !.seq.bags = id],
             res |-> [Ok("create_bag") EXCEPT !.id = id, !.item = bag_name]]

\* Variant: rename_bag on a bags table without the UNIQUE constraint.
RenameBagTx_NoUnique(d, bag_id, new_name) ==
    LET name == Strip(new_name) IN
    IF name = ""
    THEN [db |-> d, res |-> [Fail("rename_bag", "ValueError") EXCEPT
                                !.id = bag_id, !.item = new_name]]
    ELSE IF bag_id \notin DOMAIN d.bags
    THEN [db |-> d, res |-> [Fail("rename_bag", "NotFound") EXCEPT
                                !.id = bag_id, !.item = new_name]]
    ELSE [db |-> [d EXCEPT !.bags[bag_id] = name],
          res |-> [Ok("rename_bag") EXCEPT !.id = bag_id, !.item = new_name]]

\* rename_bag: the UPDATE raises IntegrityError when another bag has the name;
\* it returns False when no bag has the id.
RenameBagTx(d, bag_id, new_name) ==
    LET name == Strip(new_name) IN
    IF name = ""
    THEN [db |-> d, res |-> [Fail("rename_bag", "ValueError") EXCEPT
                                !.id = bag_id, !.item = new_name]]
    ELSE IF bag_id \notin DOMAIN d.bags
    THEN [db |-> d, res |-> [Fail("rename_bag", "NotFound") EXCEPT
                                !.id = bag_id, !.item = new_name]]
    ELSE IF \E b \in DOMAIN d.bags \ {bag_id} : d.bags[b] = name
    THEN [db |-> d, res |-> [Fail("rename_bag", "IntegrityError") EXCEPT
                                !.id = bag_id, !.item = new_name]]
    ELSE [db |-> [d EXCEPT !.bags[bag_id] = name],
          res |-> [Ok("rename_bag") EXCEPT !.id = bag_id, !.item = new_name]]

\* SELECT id, stock FROM items WHERE bag_id=? AND item_name=? (the first such row)
ItemInBag(d, bag_id, item_name) ==
    {i \in DOMAIN d.items : d.items[i].bag_id = bag_id /\ d.items[i].item_name = item_name}

\* The arguments of an add_item_to_bag call, as the result record carries them.
AddItemArgs(bag_id, item_name, amount, price) ==
    <<[bag_id |-> bag_id, item_name |-> item_name, amount |-> amount, price |-> price]>>

\* Variant: add_item_to_bag leaving the price of an existing item as it is.
AddItemToBagTx_KeepPrice(d, bag_id, item_name, amount, price, username) ==
    IF item_name = ""
    THEN [db |-> d, res |-> [Fail("add_item", "ValueError") EXCEPT !.cart = AddItemArgs(bag_id, item_name, amount, price)]]
    ELSE IF bag_id \notin DOMAIN d.bags
    THEN [db |-> d, res |-> [Fail("add_item", "NotFound") EXCEPT
                               !.id = bag_id, !.cart = AddItemArgs(bag_id, item_name, amount, price)]]
    ELSE LET bag_name == d.bags[bag_id]
             rows == ItemInBag(d, bag_id, item_name)
         IN IF rows # {}
            THEN LET item_id == First(rows)
                     cur_stock == d.items[item_id].stock
                     new_stock == cur_stock + amount
                     d1 == [d EXCEPT !.items[item_id].stock = new_stock]
                     d2 == LogStockHistory(d1, item_id, item_name, bag_name, cur_stock,
                                           new_stock, "RESTOCK", username, NoId, "")
                 IN [db |-> d2, res |-> [Ok("add_item") EXCEPT
                                           !.id = item_id, !.item = item_name,
                                           !.cart = AddItemArgs(bag_id, item_name, amount, price)]]
            ELSE LET item_id == d.seq.items + 1
                     d1 == [d EXCEPT !.items = Put(@, item_id,
                                [bag_id |-> bag_id, item_name |-> item_name,
                                 price |-> price, stock |-> amount]),
                                     !.seq.items = item_id]
                     d2 == LogStockHistory(d1, item_id, item_name, bag_name, 0, amount,
                                           "INITIAL", username, NoId, "")
                 IN [db |-> d2, res |-> [Ok("add_item") EXCEPT
                                           !.id = item_id, !.item = item_name,
                                           !.cart = AddItemArgs(bag_id, item_name, amount, price)]]

\* add_item_to_bag
AddItemToBagTx(d, bag_id, item_name, amount, price, username) ==
    IF item_name = ""
    THEN [db |-> d, res |-> [Fail("add_item", "ValueError") EXCEPT !.cart = AddItemArgs(bag_id, item_name, amount, price)]]
    ELSE IF bag_id \notin DOMAIN d.bags
    THEN [db |-> d, res |-> [Fail("add_item", "NotFound") EXCEPT
                               !.id = bag_id, !.cart = AddItemArgs(bag_id, item_name, amount, price)]]
    ELSE LET bag_name == d.bags[bag_id]
             rows == ItemInBag(d, bag_id, item_name)
         IN IF rows # {}
            THEN LET item_id == First(rows)
                     cur_stock == d.items[item_id].stock
                     new_stock == cur_stock + amount
                     d1 == [d EXCEPT !.items[item_id].stock = new_stock,
                                     !.items[item_id].price = price]
                     d2 == LogStockHistory(d1, item_id, item_name, bag_name, cur_stock,
                                           new_stock, "RESTOCK", username, NoId, "")
                 IN [db |-> d2, res |-> [Ok("add_item") EXCEPT
                                           !.id = item_id, !.item = item_name,
                                           !.cart = AddItemArgs(bag_id, item_name, amount, price)]]
            ELSE LET item_id == d.seq.items + 1
                     d1 == [d EXCEPT !.items = Put(@, item_id,
                                [bag_id |-> bag_id, item_name |-> item_name,
                                 price |-> price, stock |-> amount]),
                                     !.seq.items = item_id]
                     d2 == LogStockHistory(d1, item_id, item_name, bag_name, 0, amount,
                                           "INITIAL", username, NoId, "")
                 IN [db |-> d2, res |-> [Ok("add_item") EXCEPT
                                           !.id = item_id, !.item = item_name,
                                           !.cart = AddItemArgs(bag_id, item_name, amount, price)]]

\* increment_item_stock
IncrementItemStockTx(d, item_id, change) ==
    IF item_id \notin DOMAIN d.items
    THEN [db |-> d, res |-> [Fail("increment", "NotFound") EXCEPT !.id = item_id]]
    ELSE LET new_stock == d.items[item_id].stock + change IN
         IF new_stock < 0
         THEN [db |-> d, res |-> [Fail("increment", "InsufficientStock") EXCEPT
                                     !.id = item_id,
                                     !.available = d.items[item_id].stock,
                                     !.requested = -change]]
         ELSE [db |-> [d EXCEPT !.items[item_id].stock = new_stock],
               res |-> [Ok("increment") EXCEPT !.id = item_id, !.total = new_stock]]

\* update_bag_item: returns False (no change) for an unknown item, an item whose bag
\* the JOIN does not find, or a call that names neither price nor stock.
UpdateBagItemTx(d, item_id, price, stock, username) ==
    IF \/ item_id \notin DOMAIN d.items
       \/ d.items[item_id].bag_id \notin DOMAIN d.bags
       \/ (price = None /\ stock = None)
    THEN [db |-> d, res |-> [Fail("update_item", "NotUpdated") EXCEPT !.id = item_id]]
    ELSE LET old_stock == d.items[item_id].stock
             row == d.items[item_id]
             d1 == [d EXCEPT !.items[item_id] =
                       [row EXCEPT !.price = IF price = None THEN @ ELSE price[1],
                                   !.stock = IF stock = None THEN @ ELSE stock[1]]]
             d2 == IF stock # None /\ stock[1] # old_stock
                   THEN LogStockHistory(d1, item_id, row.item_name, d.bags[row.bag_id],
                                        old_stock, stock[1],
                                        IF stock[1] > old_stock THEN "RESTOCK"
                                                                ELSE "ADJUSTMENT",
                                        username, NoId, "")
                   ELSE d1
         IN [db |-> d2, res |-> [Ok("update_item") EXCEPT
                                   !.id = item_id, !.item = row.item_name]]

\* ON DELETE CASCADE of item_stock_history.item_id, on a connection that enforces
\* foreign keys.
DropHistoryOf(h, ids) == SelectSeq(h, LAMBDA e : e.item_id \notin ids)

\* delete_bag_item.  The connection issues no PRAGMA foreign_keys: fk says whether
\* the SQLite library enforces foreign keys by default.
DeleteBagItemTx(d, item_id, fk) ==
    IF item_id \notin DOMAIN d.items
    THEN [db |-> d, res |-> [Fail("delete_item", "NotFound") EXCEPT !.id = item_id]]
    ELSE LET d1 == [d EXCEPT !.items = [i \in DOMAIN @ \ {item_id} |-> @[i]]]
             d2 == IF fk THEN [d1 EXCEPT !.history = DropHistoryOf(@, {item_id})] ELSE d1
         IN [db |-> d2, res |-> [Ok("delete_item") EXCEPT !.id = item_id]]

\* delete_bag, with the same remark on foreign keys.
DeleteBagTx(d, bag_id, fk) ==
    IF bag_id \notin DOMAIN d.bags
    THEN [db |-> d, res |-> [Fail("delete_bag", "NotFound") EXCEPT !.id = bag_id]]
    ELSE LET gone == {i \in DOMAIN d.items : d.items[i].bag_id = bag_id}
             d1 == [d EXCEPT !.bags = [b \in DOMAIN @ \ {bag_id} |-> @[b]]]
             d2 == IF fk
                   THEN [d1 EXCEPT !.items = [i \in DOMAIN @ \ gone |-> @[i]],
                                   !.history = DropHistoryOf(@, gone)]
                   ELSE d1
         IN [db |-> d2, res |-> [Ok("delete_bag") EXCEPT !.id = bag_id]]

\* log_stock_change: writes the entry it is given when the item and its bag exist.
LogStockChangeTx(d, item_id, old_stock, new_stock, change_type, changed_by) ==
    IF item_id \in DOMAIN d.items /\ d.items[item_id].bag_id \in DOMAIN d.bags
    THEN [db |-> LogStockHistory(d, item_id, d.items[item_id].item_name,
                                 BagNameOf(d, item_id), old_stock, new_stock,
                                 change_type, changed_by, NoId, ""),
          res |-> [Ok("log_change") EXCEPT !.id = item_id]]
    ELSE [db |-> d, res |-> [Ok("log_change") EXCEPT !.id = item_id]]

\* reset_all_data of the admin panel (src/main.py): the stock history, the items,
\* the bags, the legacy inventory, the sales and the id sequences are deleted.
ResetAllDataTx(d) ==
    [db |-> [d EXCEPT !.history = <<>>, !.items = EmptyFn, !.bags = EmptyFn,
                      !.inventory = EmptyFn, !.sale_items = <<>>, !.sales = <<>>,
                      !.seq = [bags |-> 0, items |-> 0]],
     res |-> Ok("reset")]

\* ------------------------------------------------------------- inputs
\* The UI supplies each line's price: the item's shelf price, in cents.
ShelfPrice == [n \in Names |-> IF n = "Candles" THEN 50 ELSE 75]

LinesOf(names, max) ==
    {[item |-> n, quantity |-> q, unit_price |-> ShelfPrice[n]] : n \in names, q \in 0..max}

CartsOf(names, max) == UNION {[1..n -> LinesOf(names, max)] : n \in 0..MaxLines}

Carts == CartsOf(Names, MaxQty)

LedgerNames == {"Candles"}

\* ------------------------------------------------------------- initial states
\* A store stocked on earlier days: bags BagA and BagB, item rows created by
\* add_item_to_bag (each with its INITIAL journal entry), a legacy row created by
\* record_restock, and nothing sold, lost or reconciled today.  Candles may sit in
\* the legacy table and in both bags, RoseVeil in BagA only.
Slots ==
    (1 :> [bag_id |-> 1, item_name |-> "Candles"]) @@
    (2 :> [bag_id |-> 2, item_name |-> "Candles"]) @@
    (3 :> [bag_id |-> 1, item_name |-> "RoseVeil"])

InitBags == (1 :> "BagA") @@ (2 :> "BagB")

RowOf(i, stock) ==
    [bag_id |-> Slots[i].bag_id, item_name |-> Slots[i].item_name, price |-> 50,
     stock |-> stock]

InitialEntry(i, stock) ==
    [item_id |-> i, item_name |-> Slots[i].item_name, bag_name |-> InitBags[Slots[i].bag_id],
     old_stock |-> 0, new_stock |-> stock, change_amount |-> stock,
     change_type |-> "INITIAL", changed_by |-> "admin", sale_id |-> NoId,
     transaction_id |-> ""]

RECURSIVE InitialHistory(_, _)
InitialHistory(rows, i) ==
    IF i > 3 THEN <<>>
    ELSE (IF i \in DOMAIN rows THEN <<InitialEntry(i, rows[i].stock)>> ELSE <<>>)
         \o InitialHistory(rows, i + 1)

ItemLayouts(S, max) ==
    UNION {{[i \in R |-> RowOf(i, st[i])] : st \in [R -> 0..max]} : R \in S}

InventoryLayouts(max) ==
    UNION {[S -> 0..max] : S \in SUBSET {"Candles"}}

CombinedStock(name) == InvQty(DB, name) + BagQty(DB, name)

InitStore(rows, max) ==
    /\ bags = InitBags
    /\ items \in ItemLayouts(rows, max)
    /\ inventory \in InventoryLayouts(max)
    /\ history = InitialHistory(items, 1)
    /\ sales = <<>>
    /\ sale_items = <<>>
    /\ recon = EmptyFn
    /\ adjustments = <<>>
    /\ seq = [bags |-> 2, items |-> MaxId(DOMAIN items)]
    /\ result = NoResult
    /\ calls = [k \in {"sale", "restock", "loss", "report", "bag", "form"} |-> 0]
    /\ stock0 = [n \in Names |-> CombinedStock(n)]

\* No reconciliation window is open.
NoForm ==
    [open |-> FALSE, qty_map |-> EmptyFn, item_var |-> "", old_var |-> 0, new_var |-> 0,
     sold_var |-> 0, loss_var |-> 0]

\* get_db has not been called.
NoConnection == [pc |-> "idle", attempt |-> 0, opened |-> 0, conn |-> "", errors |-> <<>>]

InitConns ==
    /\ getdb = NoConnection
    /\ writer = ""
    /\ pc = [c \in Cashiers |-> "idle"]
    /\ req = [c \in Cashiers |-> [cart |-> <<>>, tx |-> "", tie |-> "asc"]]
    /\ sdata = [c \in Cashiers |-> EmptyFn]
    /\ form = NoForm

\* ------------------------------------------------------------- sequential calls
\* One call of create_sale_with_items, begun and ended with no other call between.
CreateSale(cashier, cart, tx, tie) ==
    /\ LET r == CreateSaleTx(DB, cashier, cart, tx, tie)
       IN Store(r.db) /\ result' = r.res
    /\ calls' = [calls EXCEPT !.sale = @ + 1]
    /\ UNCHANGED <<conns, stock0, form, getdb>>

RecordRestock(item, qty) ==
    /\ LET r == RecordRestockTx(DB, item, qty)
       IN Store(r.db) /\ result' = r.res
    /\ calls' = [calls EXCEPT !.restock = @ + 1]
    /\ UNCHANGED <<conns, stock0, form, getdb>>

RecordLossDrawn(item, qty) ==
    /\ LET r == RecordLossDrawnTx(DB, item, qty)
       IN Store(r.db) /\ result' = r.res
    /\ calls' = [calls EXCEPT !.loss = @ + 1]
    /\ UNCHANGED <<conns, stock0, form, getdb>>

ReportLossEvent(item, qty, apply_immediately) ==
    /\ LET r == ReportLossEventTx(DB, item, qty, Today, apply_immediately)
       IN Store(r.db) /\ result' = r.res
    /\ calls' = [calls EXCEPT !.report = @ + 1]
    /\ UNCHANGED <<conns, stock0, form, getdb>>

ApproveLossEvent(event_id) ==
    /\ LET r == ApproveLossEventTx(DB, event_id)
       IN Store(r.db) /\ result' = r.res
    /\ UNCHANGED <<conns, calls, stock0, form, getdb>>

RejectLossEvent(event_id) ==
    /\ LET r == RejectLossEventTx(DB, event_id)
       IN Store(r.db) /\ result' = r.res
    /\ UNCHANGED <<conns, calls, stock0, form, getdb>>

\* SpecSale: one call on any stocked store.
NextSale ==
    /\ result.op = "none"
    /\ \E cart \in Carts, tx \in TxIds, tie \in TieOrders : CreateSale("c1", cart, tx, tie)

InitSale == InitStore({{1, 3}, {1, 2, 3}}, MaxQty) /\ InitConns

SpecSale == InitSale /\ [][NextSale]_vars

\* Spec: a sale, a restock, a direct loss and the loss-event workflow in any order,
\* on a store with Candles in the legacy table and in BagA.
Next ==
    \/ /\ calls.sale = 0
       /\ \E cart \in CartsOf(LedgerNames, MaxSmallQty) :
            CreateSale("c1", cart, "TX-1", "asc")
    \/ /\ calls.restock = 0
       /\ \E item \in LedgerNames, qty \in (-1)..MaxSmallQty : RecordRestock(item, qty)
    \/ /\ calls.loss = 0
       /\ \E item \in LedgerNames, qty \in (-1)..MaxSmallQty : RecordLossDrawn(item, qty)
    \/ /\ calls.report < MaxEvents
       /\ \E item \in LedgerNames, qty \in 0..MaxSmallQty, now \in BOOLEAN :
            ReportLossEvent(item, qty, now)
    \/ \E event_id \in 1..(Len(adjustments) + 1) : ApproveLossEvent(event_id)
    \/ \E event_id \in 1..(Len(adjustments) + 1) : RejectLossEvent(event_id)

Init == InitStore({{1}}, MaxSmallQty) /\ InitConns

Spec == Init /\ [][Next]_vars

\* ------------------------------------------------------------- bag management
\* The operator's calls on bags and items, the journal call and the admin reset,
\* one after the other, with one sale among them.
BagNames == {"", "BagA", "BagC"}
ItemNames == {"", "Candles"}
BagPrices == {-5, 50}
Amounts == {-1, 0, 1}
Figures == {0, 1}
Optional(S) == {None} \cup {<<v>> : v \in S}
ItemIds == DOMAIN items \cup {seq.items + 1}
BagIds == DOMAIN bags \cup {seq.bags + 1}

BagCall(r) ==
    /\ calls.bag < MaxBagOps
    /\ Store(r.db)
    /\ result' = r.res
    /\ calls' = [calls EXCEPT !.bag = @ + 1]
    /\ UNCHANGED <<conns, stock0, form, getdb>>

CreateBag(bag_name) == BagCall(CreateBagTx(DB, bag_name))

AddItemToBag(bag_id, item_name, amount, price) ==
    BagCall(AddItemToBagTx(DB, bag_id, item_name, amount, price, "admin"))

IncrementItemStock(item_id, change) == BagCall(IncrementItemStockTx(DB, item_id, change))

UpdateBagItem(item_id, price, stock) ==
    BagCall(UpdateBagItemTx(DB, item_id, price, stock, "admin"))

DeleteBagItem(item_id, fk) == BagCall(DeleteBagItemTx(DB, item_id, fk))

DeleteBag(bag_id, fk) == BagCall(DeleteBagTx(DB, bag_id, fk))

LogStockChange(item_id, old_stock, new_stock) ==
    BagCall(LogStockChangeTx(DB, item_id, old_stock, new_stock, "CORRECTION", "admin"))

ResetAllData == BagCall(ResetAllDataTx(DB))

BagSale(q) ==
    /\ calls.sale = 0
    /\ CreateSale("c1", <<[item |-> "Candles", quantity |-> q,
                           unit_price |-> ShelfPrice["Candles"]]>>, "TX-1", "asc")

NextBag ==
    \/ \E bag_name \in BagNames : CreateBag(bag_name)
    \/ \E bag_id \in BagIds, item_name \in ItemNames, amount \in Amounts,
          price \in BagPrices : AddItemToBag(bag_id, item_name, amount, price)
    \/ \E item_id \in ItemIds, change \in Amounts : IncrementItemStock(item_id, change)
    \/ \E item_id \in ItemIds, price \in Optional(BagPrices),
          stock \in Optional(Amounts) : UpdateBagItem(item_id, price, stock)
    \/ \E item_id \in ItemIds, fk \in BOOLEAN : DeleteBagItem(item_id, fk)
    \/ \E bag_id \in BagIds, fk \in BOOLEAN : DeleteBag(bag_id, fk)
    \/ \E item_id \in ItemIds, old_stock \in Figures, new_stock \in Figures :
          LogStockChange(item_id, old_stock, new_stock)
    \/ ResetAllData
    \/ \E q \in 1..MaxSmallQty : BagSale(q)

SpecBag == Init /\ [][NextBag]_vars

\* ------------------------------------------------------------- a failing sale
\* SpecFault: one call of create_sale_with_items on any stocked store, in which
\* one statement may raise.
Faults == [stmt : Statements, line : 1..MaxLines]

CreateSaleFailing(cashier, cart, tx, tie, fault) ==
    /\ result.op = "none"
    /\ LET r == CreateSaleFailingTx(DB, cashier, cart, tx, tie, fault)
       IN Store(r.db) /\ result' = r.res
    /\ calls' = [calls EXCEPT !.sale = @ + 1]
    /\ UNCHANGED <<conns, stock0, form, getdb>>

NextFault ==
    \E cart \in Carts, fault \in Faults : CreateSaleFailing("c1", cart, "TX-1", "asc", fault)

SpecFault == InitSale /\ [][NextFault]_vars

\* ------------------------------------------------------------- concurrent sales
\* Each cashier's connection runs create_sale_with_items once, statement by
\* statement: BEGIN IMMEDIATE, the validation reads, the writes and the commit.
\* SQLite lets one connection at a time hold the write lock; a connection that
\* cannot get it within the busy timeout raises "database is locked".

\* Variant: a plain BEGIN, which takes no lock before the reads.
BeginDeferred(c) == writer' = writer

\* cur.execute("BEGIN IMMEDIATE"): the write lock is taken before any read.
BeginImmediate(c) == writer = "" /\ writer' = c

CallSale(c, cart, tx) ==
    /\ pc[c] = "idle"
    /\ pc' = [pc EXCEPT ![c] = "begin"]
    /\ req' = [req EXCEPT ![c] = [cart |-> cart, tx |-> tx, tie |-> "asc"]]
    /\ UNCHANGED <<tables, result, writer, sdata, calls, stock0, form, getdb>>

SaleBegin(c) ==
    /\ pc[c] = "begin"
    /\ BeginImmediate(c)
    /\ pc' = [pc EXCEPT ![c] = "validate"]
    /\ UNCHANGED <<tables, result, req, sdata, calls, stock0, form, getdb>>

\* The busy timeout ends while another connection still holds the lock.
SaleLocked(c) ==
    /\ pc[c] = "begin"
    /\ writer \notin {"", c}
    /\ pc' = [pc EXCEPT ![c] = "done"]
    /\ result' = [Fail("sale", "StorageFailure") EXCEPT !.cart = req[c].cart, !.item = c]
    /\ UNCHANGED <<tables, writer, req, sdata, calls, stock0, form, getdb>>

\* Lines 1163-1193: on an error the except clause rolls back and the lock is freed.
SaleCheck(c) ==
    /\ pc[c] = "validate"
    /\ LET v == SaleValidate(DB, req[c].cart) IN
       IF v.ok
       THEN /\ sdata' = [sdata EXCEPT ![c] = StockData(DB, req[c].cart)]
            /\ pc' = [pc EXCEPT ![c] = "write"]
            /\ UNCHANGED <<result, writer>>
       ELSE /\ result' = v
            /\ pc' = [pc EXCEPT ![c] = "done"]
            /\ writer' = IF writer = c THEN "" ELSE writer
            /\ UNCHANGED sdata
    /\ UNCHANGED <<tables, req, calls, stock0, form, getdb>>

\* Lines 1195-1286: the writes, then commit, or rollback on an error.
SaleCommit(c) ==
    /\ pc[c] = "write"
    /\ LET r == SaleWrite(DB, c, req[c].cart, sdata[c], req[c].tx, req[c].tie)
       IN Store(r.db) /\ result' = r.res
    /\ pc' = [pc EXCEPT ![c] = "done"]
    /\ writer' = IF writer = c THEN "" ELSE writer
    /\ calls' = [calls EXCEPT !.sale = @ + 1]
    /\ UNCHANGED <<req, sdata, stock0, form, getdb>>

NextConc ==
    \E c \in Cashiers :
        \/ \E cart \in CartsOf(LedgerNames, MaxSmallQty), tx \in TxIds : CallSale(c, cart, tx)
        \/ SaleBegin(c)
        \/ SaleLocked(c)
        \/ SaleCheck(c)
        \/ SaleCommit(c)

SpecConc == Init /\ [][NextConc]_vars

\* ------------------------------------------------------------- claims: vocabulary
\* Stock figures read straight from the tables.
Legacy(inv, n) == IF n \in DOMAIN inv THEN inv[n] ELSE 0

RECURSIVE ContainerSum(_, _)
ContainerSum(its, S) ==
    IF S = {} THEN 0
    ELSE LET i == CHOOSE j \in S : TRUE IN its[i].stock + ContainerSum(its, S \ {i})

ContainerRows(its, n) == {i \in DOMAIN its : its[i].item_name = n}

ContainerTotal(its, n) == ContainerSum(its, ContainerRows(its, n))

Available(inv, its, n) == Legacy(inv, n) + ContainerTotal(its, n)

RECURSIVE CartQty(_, _)
CartQty(cart, n) ==
    IF cart = <<>> THEN 0
    ELSE (IF Head(cart).item = n THEN Head(cart).quantity ELSE 0) + CartQty(Tail(cart), n)

\* This step is a call of create_sale_with_items that returned or raised.
SaleCall == calls'.sale = calls.sale + 1 /\ result'.op = "sale"

SaleCommitted == SaleCall /\ result'.ok

\* ------------------------------------------------------------- C1
\* C1: a cart with a line whose quantity exceeds the item's combined stock (legacy
\* quantity plus the container rows of that name) is rejected and every table is
\* left as it was; when every line has a positive quantity the error is the
\* insufficient-stock one and carries the item's available total and the
\* quantity that line requested.
C1_Exceeds(cart) ==
    \E i \in 1..Len(cart) : cart[i].quantity > Available(inventory, items, cart[i].item)

C1_Figures(cart, r) ==
    /\ r.err = "InsufficientStock"
    /\ r.available = Available(inventory, items, r.item)
    /\ r.requested > r.available
    /\ \E i \in 1..Len(cart) : cart[i].item = r.item /\ cart[i].quantity = r.requested

C3_Conservation ==
    [][ SaleCommitted =>
            /\ DOMAIN inventory' = DOMAIN inventory
            /\ DOMAIN items' = DOMAIN items
            /\ \A i \in DOMAIN items : items'[i].stock <= items[i].stock
            /\ \A n \in Names :
                 /\ (Legacy(inventory, n) - Legacy(inventory', n))
                      + (ContainerTotal(items, n) - ContainerTotal(items', n))
                    = CartQty(result'.cart, n)
                 /\ n \notin CartNames(result'.cart) =>
                      /\ Legacy(inventory', n) = Legacy(inventory, n)
                      /\ \A i \in ContainerRows(items, n) : items'[i] = items[i] ]_vars

\* A committed two-item cart: 2 Candles taken across the legacy row and a bag row,
\* 1 RoseVeil from its bag row.
C3_Witness ==
    /\ result.op = "sale" /\ result.ok
    /\ CartQty(result.cart, "Candles") = 2 /\ CartQty(result.cart, "RoseVeil") = 1
    /\ stock0["Candles"] - Available(inventory, items, "Candles") = 2
    /\ stock0["RoseVeil"] - Available(inventory, items, "RoseVeil") = 1
    /\ "Candles" \in DOMAIN inventory /\ inventory["Candles"] = 0
    /\ \E h \in 1..Len(history) :
         history[h].change_type = "SALE" /\ history[h].item_name = "Candles"

\* ------------------------------------------------------------- C4
\* C4: every sale's total is the sum of the subtotals of its sale_items rows, and
\* every sale_items row has quantity > 0 and subtotal = quantity * unit_price.
RECURSIVE C4_SubtotalSum(_, _)
C4_SubtotalSum(rows, sale_id) ==
    IF rows = <<>> THEN 0
    ELSE (IF Head(rows).sale_id = sale_id THEN Head(rows).subtotal ELSE 0)
         + C4_SubtotalSum(Tail(rows), sale_id)

C4_TotalIsSum ==
    /\ \A i \in 1..Len(sales) : sales[i].total = C4_SubtotalSum(sale_items, sales[i].id)
    /\ \A j \in 1..Len(sale_items) :
         /\ sale_items[j].quantity > 0
         /\ sale_items[j].subtotal = sale_items[j].quantity * sale_items[j].unit_price
         /\ \E i \in 1..Len(sales) : sales[i].id = sale_items[j].sale_id

\* A sale of 2 Candles at 50 and 1 RoseVeil at 75: total 175.
C4_Witness ==
    /\ Len(sales) = 1 /\ Len(sale_items) = 2
    /\ sale_items[1].quantity = 2 /\ sale_items[1].unit_price = 50
    /\ sale_items[2].quantity = 1 /\ sale_items[2].unit_price = 75
    /\ sales[1].total = 175

\* ------------------------------------------------------------- C6
\* C6 (as claimed): a committed sale appends one SALE history entry, carrying its
\* sale_id and transaction_id, for every stock row it changes, the legacy
\* inventory row as well as each container row.
C6_ChangedLegacy == {n \in DOMAIN inventory : inventory'[n] # inventory[n]}

C6_ChangedRows == {i \in DOMAIN items : items'[i].stock # items[i].stock}

C6_EntryPerChangedRow ==
    [][ SaleCommitted =>
            /\ Len(history') = Len(history) + Cardinality(C6_ChangedLegacy)
                                + Cardinality(C6_ChangedRows)
            /\ \A h \in (Len(history) + 1)..Len(history') :
                 /\ history'[h].change_type = "SALE"
                 /\ history'[h].sale_id = result'.id
                 /\ history'[h].transaction_id = result'.tx ]_vars

\* ------------------------------------------------------------- C7
\* C7: in a committed sale the legacy tier gives min(legacy quantity, quantity
\* requested of the item), and a container row of an item is reduced only when the
\* item's legacy quantity ends at 0.
C7_LegacyFirst ==
    [][ SaleCommitted =>
          \A n \in Names :
            /\ Legacy(inventory, n) - Legacy(inventory', n)
                 = Min(Legacy(inventory, n), CartQty(result'.cart, n))
            /\ ContainerTotal(items', n) < ContainerTotal(items, n)
                 => Legacy(inventory', n) = 0 ]_vars

\* Legacy 1 and one bag row of 2, 2 requested: legacy ends at 0, the row at 1.
C7_Witness ==
    /\ result.op = "sale" /\ result.ok
    /\ result.cart = <<[item |-> "Candles", quantity |-> 2, unit_price |-> 50]>>
    /\ stock0["Candles"] = 3
    /\ "Candles" \in DOMAIN inventory /\ inventory["Candles"] = 0
    /\ DOMAIN items = {1, 3} /\ items[1].stock = 1
    /\ history[Len(history)].old_stock = 2 /\ history[Len(history)].new_stock = 1

\* ------------------------------------------------------------- C8
\* C8: a one-line cart asking q > 0 of an item with no legacy stock and exactly one
\* container row, of stock s >= q, commits with total q * unit_price, leaves the row
\* at s - q and appends exactly one history entry: SALE, old s, new s - q, with the
\* sale's id and transaction id.
C8_Case(cart) ==
    /\ Len(cart) = 1 /\ cart[1].quantity > 0
    /\ Legacy(inventory, cart[1].item) = 0
    /\ Cardinality(ContainerRows(items, cart[1].item)) = 1
    /\ ContainerTotal(items, cart[1].item) >= cart[1].quantity
    /\ sales = <<>>

C8_ContainerOnly ==
    [][ (SaleCall /\ C8_Case(result'.cart)) =>
          LET l == result'.cart[1]
              r == CHOOSE i \in ContainerRows(items, l.item) : TRUE
              s == items[r].stock
          IN /\ result'.ok
             /\ result'.total = l.quantity * l.unit_price
             /\ items'[r].stock = s - l.quantity
             /\ Len(sales') = 1
             /\ sales'[1].id = result'.id /\ sales'[1].transaction_id = result'.tx
             /\ sales'[1].total = result'.total
             /\ Len(history') = Len(history) + 1
             /\ LET e == history'[Len(history')]
                IN /\ e.item_id = r /\ e.change_type = "SALE"
                   /\ e.old_stock = s /\ e.new_stock = s - l.quantity
                   /\ e.change_amount = -l.quantity
                   /\ e.sale_id = result'.id /\ e.transaction_id = result'.tx
             /\ SubSeq(history', 1, Len(history)) = history ]_vars

\* RoseVeil, only in BagA with stock 2: 1 sold at 75, the row left at 1.
C8_Witness ==
    /\ result.op = "sale" /\ result.ok /\ result.total = 75
    /\ result.cart = <<[item |-> "RoseVeil", quantity |-> 1, unit_price |-> 75]>>
    /\ items[3].stock = 1
    /\ history[Len(history)].change_type = "SALE"
    /\ history[Len(history)].old_stock = 2 /\ history[Len(history)].new_stock = 1
    /\ history[Len(history)].sale_id = 1 /\ history[Len(history)].transaction_id = result.tx

\* ------------------------------------------------------------- C2
\* Quantity of item n in the sale_items rows of committed sales.
RECURSIVE C2_Sold(_, _)
C2_Sold(rows, n) ==
    IF rows = <<>> THEN 0
    ELSE (IF Head(rows).item = n THEN Head(rows).quantity ELSE 0) + C2_Sold(Tail(rows), n)

C2_OneWriter ==
    \A c \in Cashiers :
        /\ pc[c] \in {"validate", "write"} => writer = c
        /\ pc[c] = "write" => sdata[c] = StockData(DB, req[c].cart)

C2_NoOversell ==
    /\ \A n \in Names :
         /\ C2_Sold(sale_items, n) + Available(inventory, items, n) = stock0[n]
         /\ Legacy(inventory, n) >= 0
    /\ \A i \in DOMAIN items : items[i].stock >= 0

C2_DeductionStep(c) ==
    /\ pc[c] = "write" /\ pc'[c] = "done"
    /\ \A n \in CartNames(req[c].cart) : CartQty(req[c].cart, n) <= sdata[c][n].total

\* C2: with cashiers running create_sale_with_items concurrently, a sale holds the
\* write lock from before its availability reads to its commit and the stock it
\* validated against is the stock it deducts from; the quantity sold plus the stock
\* left is always the stock the store began with and no stock is negative; a sale
\* that passed validation, and whose own lines together ask no more than it read,
\* commits: the sale and its deductions are written in full.
C2_NoOversellConcurrent ==
    /\ [](C2_OneWriter /\ C2_NoOversell)
    /\ [][ \A c \in Cashiers : C2_DeductionStep(c) =>
             /\ result'.op = "sale"
             /\ result'.err # "DeductionFailed"
             /\ (~TxTaken(DB, req[c].tx)) =>
                  /\ result'.ok
                  /\ \A n \in Names :
                       Available(inventory', items', n)
                         = Available(inventory, items, n) - CartQty(req[c].cart, n) ]_vars

\* Both cashiers asked for the one Candles in stock: one sale is committed, the
\* other cashier was refused with available 0, and nothing is left.
C2_Witness ==
    /\ stock0["Candles"] = 1
    /\ \A c \in Cashiers : pc[c] = "done" /\ CartQty(req[c].cart, "Candles") = 1
    /\ Len(sales) = 1 /\ C2_Sold(sale_items, "Candles") = 1
    /\ Available(inventory, items, "Candles") = 0
    /\ result.op = "sale" /\ result.err = "InsufficientStock"
    /\ result.available = 0 /\ result.requested = 1

\* ------------------------------------------------------------- C5
\* C5: after any sequence of restock, sale, direct loss, loss report, approve and
\* reject calls, accepted or refused, every legacy quantity and every container
\* stock is >= 0.
C5_NoNegativeStock ==
    /\ \A n \in DOMAIN inventory : inventory[n] >= 0
    /\ \A i \in DOMAIN items : items[i].stock >= 0

\* All stock is gone after a sale and losses, and a further loss has been refused.
C5_Witness ==
    /\ calls.sale = 1 /\ Len(sales) = 1
    /\ calls.loss = 1 /\ calls.report = 1
    /\ "Candles" \in DOMAIN inventory /\ inventory["Candles"] = 0
    /\ \A i \in DOMAIN items : items[i].stock = 0
    /\ result.err = "InsufficientStock" /\ result.op \in {"loss", "report", "approve"}

\* ------------------------------------------------------------- C9
\* C9 (as claimed): an event's status only ever goes from PENDING to APPROVED or
\* from PENDING to REJECTED, and an approve or reject call on an event that is
\* already APPROVED or REJECTED changes neither the event nor the item's stock nor
\* the reconciliation records.
C9_TerminalStatus ==
    [][ \A e \in 1..Len(adjustments) :
          /\ adjustments'[e].status # adjustments[e].status =>
               /\ adjustments[e].status = "PENDING"
               /\ adjustments'[e].status \in {"APPROVED", "REJECTED"}
          /\ ( /\ adjustments[e].status # "PENDING"
               /\ result'.op \in {"approve", "reject"}
               /\ result'.id = e ) =>
               /\ adjustments'[e] = adjustments[e]
               /\ inventory' = inventory
               /\ recon' = recon ]_vars

\* ------------------------------------------------------------- C10
\* C10: an approve call that directly follows an approve call on the same event,
\* or a reject call that directly follows a reject call on the same event, changes
\* no table (status, stock, loss_drawn and applied stay as the first call left
\* them), and reports success whenever the first call did.
C10_Repeat ==
    /\ result.op \in {"approve", "reject"}
    /\ result'.op = result.op
    /\ result'.id = result.id
    /\ calls' = calls

C10_Idempotent ==
    [][ C10_Repeat => /\ UNCHANGED tables
                      /\ result.ok => result'.ok ]_vars

\* The second approve of an applied event: it answers "Already approved", the loss
\* has been drawn once.
C10_Witness ==
    /\ result.op = "approve" /\ result.ok /\ result.err = "Already approved"
    /\ adjustments[1].status = "APPROVED" /\ adjustments[1].applied
    /\ <<"Candles", Today>> \in DOMAIN recon
    /\ recon[<<"Candles", Today>>].loss_drawn = adjustments[1].qty
    /\ calls.loss = 0 /\ calls.sale = 0 /\ calls.restock = 0
    /\ Legacy(inventory, "Candles") = stock0["Candles"] - ContainerTotal(items, "Candles") - 1

\* ------------------------------------------------------------- C11
\* loss_drawn of the item's reconciliation record of the day, 0 with no record.
LossDrawn(rc, item, date) ==
    IF <<item, date>> \in DOMAIN rc THEN rc[<<item, date>>].loss_drawn ELSE 0

C11_RoundTrip(item, q) ==
    LET s == Legacy(inventory, item)
        r == ReportLossEventTx(DB, item, q, Today, TRUE)
        e == r.res.id
        j == RejectLossEventTx(r.db, e)
    IN /\ r.res.ok
       /\ Legacy(r.db.inventory, item) = s - q
       /\ Len(r.db.adjustments) = Len(adjustments) + 1 /\ e = Len(r.db.adjustments)
       /\ r.db.adjustments[e].status = "PENDING" /\ r.db.adjustments[e].applied
       /\ r.db.adjustments[e].item = item /\ r.db.adjustments[e].qty = q
       /\ LossDrawn(r.db.recon, item, Today) = LossDrawn(recon, item, Today) + q
       /\ j.res.ok
       /\ Legacy(j.db.inventory, item) = s
       /\ LossDrawn(j.db.recon, item, Today) = LossDrawn(recon, item, Today)
       /\ j.db.adjustments[e].status = "REJECTED" /\ ~j.db.adjustments[e].applied

C11_RejectStep(e) ==
    /\ e \in 1..Len(adjustments)
    /\ adjustments[e].status = "PENDING" /\ adjustments[e].applied
    /\ result'.op = "reject" /\ result'.id = e /\ adjustments' # adjustments

C12_ApproveStep(e) ==
    /\ e \in 1..Len(adjustments)
    /\ adjustments[e].status = "PENDING" /\ ~adjustments[e].applied
    /\ result'.op = "approve" /\ result'.id = e

C13_InvalidCart(cart) ==
    \/ cart = <<>>
    \/ \E i \in 1..Len(cart) : cart[i].quantity <= 0

\* C13 (as claimed): create_sale_with_items called with an empty cart, or with a
\* cart holding a line of quantity <= 0, is refused and changes no table.
C13_InvalidCartRejected ==
    [][ (SaleCall /\ C13_InvalidCart(result'.cart)) =>
            ~result'.ok /\ UNCHANGED tables ]_vars

\* ------------------------------------------------------------- C14
\* The item rows a step inserted or changed.
C14_Written == {i \in DOMAIN items' : i \notin DOMAIN items \/ items'[i] # items[i]}

\* C14 (as claimed): add_item_to_bag and update_bag_item never write an item row
\* with an empty name, a negative price or a negative stock, and a call they
\* refuse changes no table.
C14_BagValidation ==
    [][ result'.op \in {"add_item", "update_item"} =>
          /\ \A i \in C14_Written :
               /\ items'[i].item_name # ""
               /\ items'[i].price >= 0
               /\ items'[i].stock >= 0
          /\ ~result'.ok => UNCHANGED tables ]_vars

\* ------------------------------------------------------------- C15
\* The entries a step appended to the journal.
C15_Appended ==
    IF Len(history') > Len(history)
    THEN SubSeq(history', Len(history) + 1, Len(history')) ELSE <<>>

\* Sum of new_stock - old_stock over the entries of h for item row i.
RECURSIVE C15_RowSum(_, _)
C15_RowSum(h, i) ==
    IF h = <<>> THEN 0
    ELSE (IF Head(h).item_id = i THEN Head(h).new_stock - Head(h).old_stock ELSE 0)
         + C15_RowSum(Tail(h), i)

\* The same over the entries for name n that belong to no item row of ids.
RECURSIVE C15_LegacySum(_, _, _)
C15_LegacySum(h, n, ids) ==
    IF h = <<>> THEN 0
    ELSE (IF Head(h).item_name = n /\ Head(h).item_id \notin ids
          THEN Head(h).new_stock - Head(h).old_stock ELSE 0)
         + C15_LegacySum(Tail(h), n, ids)

C15_RowDelta(i) ==
    items'[i].stock - (IF i \in DOMAIN items THEN items[i].stock ELSE 0)

\* C15 (as claimed): a committed sale, add, update or increment leaves, for every
\* container row and every legacy row whose stock it changed, journal entries of
\* that row whose new_stock - old_stock values sum to the change.
C15_HistoryComplete ==
    [][ (result'.op \in {"sale", "add_item", "update_item", "increment"} /\ result'.ok) =>
          /\ \A i \in DOMAIN items' :
               C15_RowDelta(i) # 0 =>
                 C15_RowSum(C15_Appended, i) = C15_RowDelta(i)
          /\ \A n \in Names :
               Legacy(inventory', n) # Legacy(inventory, n) =>
                 C15_LegacySum(C15_Appended, n, DOMAIN items')
                   = Legacy(inventory', n) - Legacy(inventory, n) ]_vars

\* ------------------------------------------------------------- C16
\* C16 (as claimed): the journal only grows: every step leaves the entries written
\* so far in place and unchanged, whatever the operation.
C16_AppendOnly ==
    [][ /\ Len(history') >= Len(history)
        /\ SubSeq(history', 1, Len(history)) = history ]_vars

\* ------------------------------------------------------------- C17
\* C17: every journal entry has change_amount = new_stock - old_stock, whether a
\* sale, add_item_to_bag, update_bag_item or log_stock_change wrote it.
C17_ChangeAmount ==
    \A h \in 1..Len(history) :
        history[h].change_amount = history[h].new_stock - history[h].old_stock

C17_Has(change_type, amount) ==
    \E h \in 1..Len(history) :
        history[h].change_type = change_type /\ history[h].change_amount = amount

\* The journal holds a SALE entry of -1, a RESTOCK entry of +1 and a CORRECTION
\* entry of -1 written through log_stock_change.
C17_Witness ==
    /\ C17_Has("SALE", -1) /\ C17_Has("RESTOCK", 1) /\ C17_Has("CORRECTION", -1)
    /\ result.op = "log_change"

\* ------------------------------------------------------------- C18
\* C18: a call of create_sale_with_items in which a statement raises after BEGIN
\* (the header insert, a line-item insert, a stock update, or the journal insert
\* that follows a stock update) leaves every table as it was: no sale, line item,
\* stock change or journal entry of the call survives.
C18_RollbackOnFailure ==
    [][ (SaleCall /\ ~result'.ok) => UNCHANGED tables ]_vars

\* The journal insert of the second line's bag row raised: the first line had
\* been written in full and the second line's stock updated, and nothing is left.
C18_Witness ==
    /\ result.op = "sale" /\ result.err = "StorageFailure"
    /\ result.item = "history" /\ result.requested = 2
    /\ Len(result.cart) = 2 /\ result.cart[1].item = "Candles"
    /\ result.cart[1].quantity = 2 /\ result.cart[2].item = "RoseVeil"
    /\ sales = <<>> /\ sale_items = <<>> /\ recon = EmptyFn
    /\ \A n \in Names : Available(inventory, items, n) = stock0[n]
    /\ \A h \in 1..Len(history) : history[h].change_type = "INITIAL"

\* ------------------------------------------------------------- C19
\* old_stock + new_stock - sold today - loss_drawn of the item's record of today.
C19_Balance(item) ==
    LET r == recon[<<item, Today>>]
    IN r.old_stock + r.new_stock - C2_Sold(sale_items, item) - r.loss_drawn

\* C19 (as claimed): for every item with a reconciliation record of the day whose
\* old_stock is set, old_stock + new_stock - quantity sold that day - loss_drawn
\* is >= 0, after any sequence of sales, restocks, losses, approvals and rejections.
C19_ReconciliationIdentity ==
    \A item \in Names :
        (<<item, Today>> \in DOMAIN recon /\ recon[<<item, Today>>].has_old)
            => C19_Balance(item) >= 0

\* ------------------------------------------------------------- reconciliation window
\* The strings of the model in SQLite's BINARY order.
Collation == <<"", "BagA", "BagB", "BagC", "Candles", "RoseVeil", "Unknown">>

Rank(str) == CHOOSE k \in 1..Len(Collation) : Collation[k] = str

\* get_all_stock: items LEFT JOIN bags, COALESCE(b.bag_name, '').
FormBagName(d, i) ==
    IF d.items[i].bag_id \in DOMAIN d.bags THEN d.bags[d.items[i].bag_id] ELSE ""

\* ORDER BY COALESCE(b.bag_name, ''), i.item_name: row i comes no later than row j.
NotAfter(d, i, j) ==
    \/ Rank(FormBagName(d, i)) < Rank(FormBagName(d, j))
    \/ /\ FormBagName(d, i) = FormBagName(d, j)
       /\ Rank(d.items[i].item_name) <= Rank(d.items[j].item_name)

\* The rows of a name that can come last in get_all_stock's result.
LastRows(d, name) == {i \in RowsOf(d, name) : \A j \in RowsOf(d, name) : NotAfter(d, j, i)}

\* The names that can come first in get_all_stock's result ("" when it is empty).
FirstItems(d) ==
    IF DOMAIN d.items = {} THEN {""}
    ELSE {d.items[i].item_name : i \in {k \in DOMAIN d.items : \A j \in DOMAIN d.items : NotAfter(d, k, j)}}

\* qty_map = {row[0]: int(row[1]) for row in stock_list}: the last row of a name
\* wins; rows that compare equal come in either order.
QtyMaps(d) ==
    LET ns == {d.items[i].item_name : i \in DOMAIN d.items}
        picks == {p \in [ns -> DOMAIN d.items] : \A n \in ns : p[n] \in LastRows(d, n)}
    IN {[n \in ns |-> d.items[p[n]].stock] : p \in picks}

\* parse_int
ParseInt(v) == IF v < 0 THEN 0 ELSE v

\* update_stock
UpdateStockTx(d, item, change) ==
    IF item \in DOMAIN d.inventory
    THEN [d EXCEPT !.inventory[item] = @ + change]
    ELSE [d EXCEPT !.inventory = Put(@, item, IF change < 0 THEN 0 ELSE change)]

\* apply_balance, with the entry fields as the operator left them.
ApplyBalanceTx(d, f, item, old, new, sold, loss) ==
    LET fields == [f EXCEPT !.item_var = item, !.old_var = old, !.new_var = new,
                            !.sold_var = sold, !.loss_var = loss]
        cur_qty == IF item \in DOMAIN f.qty_map THEN f.qty_map[item] ELSE 0
        bal == ParseInt(old) + ParseInt(new) - ParseInt(sold) - ParseInt(loss)
        delta == bal - cur_qty
    IN IF item = ""
       THEN [db |-> d, form |-> fields, res |-> Fail("apply", "SelectItem")]
       ELSE IF bal < 0
       THEN [db |-> d, form |-> fields,
             res |-> [Fail("apply", "InvalidBalance") EXCEPT !.item = item, !.total = bal]]
       ELSE [db |-> IF delta # 0 THEN UpdateStockTx(d, item, delta) ELSE d,
             form |-> [fields EXCEPT !.open = FALSE,
                                     !.qty_map = IF delta # 0 THEN Put(@, item, cur_qty + delta) ELSE @],
             res |-> [Ok("apply") EXCEPT !.item = item, !.total = bal]]

\* show_stock_reconciliation: the window opens and loads the quantities.
OpenReconForm ==
    /\ calls.form = 0
    /\ ~form.open
    /\ \E m \in QtyMaps(DB), first \in FirstItems(DB) :
         form' = [NoForm EXCEPT !.open = TRUE, !.qty_map = m, !.item_var = first,
                                !.old_var = IF first \in DOMAIN m THEN m[first] ELSE 0]
    /\ result' = Ok("open")
    /\ calls' = [calls EXCEPT !.form = @ + 1]
    /\ UNCHANGED <<tables, conns, stock0, getdb>>

\* The operator picks an item, fills the four fields and presses Apply Balance.
ApplyBalance(item, old, new, sold, loss) ==
    /\ form.open
    /\ LET r == ApplyBalanceTx(DB, form, item, old, new, sold, loss)
       IN Store(r.db) /\ result' = r.res /\ form' = r.form
    /\ UNCHANGED <<conns, calls, stock0, getdb>>

\* What the combobox offers: the loaded names, or nothing to select.
FormItems == IF DOMAIN form.qty_map = {} THEN {""} ELSE DOMAIN form.qty_map

OldEntries == {-1, 0, 1, 2}
Entries == {0, 1}

\* SpecRecon: the reconciliation window next to a sale and a restock, on a store
\* with Candles in the legacy table, in BagA and possibly in BagB.
NextRecon ==
    \/ OpenReconForm
    \/ \E item \in FormItems, old \in OldEntries, new \in Entries, sold \in Entries, loss \in Entries :
         ApplyBalance(item, old, new, sold, loss)
    \/ /\ calls.sale = 0
       /\ \E cart \in CartsOf(LedgerNames, MaxSmallQty) : CreateSale("c1", cart, "TX-1", "asc")
    \/ /\ calls.restock = 0
       /\ \E qty \in 0..MaxSmallQty : RecordRestock("Candles", qty)

InitRecon == InitStore({{1}, {1, 2}}, MaxSmallQty) /\ InitConns

SpecRecon == InitRecon /\ [][NextRecon]_vars

\* ------------------------------------------------------------- C20
\* C20: apply_balance computes balance = old + received - sold - loss from its
\* four inputs; a negative balance is rejected and no table changes; otherwise,
\* once it has completed, the item's stock equals the balance (as the legacy
\* quantity, the container total or their sum), whatever happened to the stock
\* since the window loaded its quantities.
C20_Balance(f) ==
    ParseInt(f.old_var) + ParseInt(f.new_var) - ParseInt(f.sold_var) - ParseInt(f.loss_var)

C20_ApplyStep == form.open /\ result'.op = "apply" /\ form'.item_var # ""

C20_StockIs(inv, its, item, bal) ==
    \/ Legacy(inv, item) = bal
    \/ ContainerTotal(its, item) = bal
    \/ Available(inv, its, item) = bal

C20_ApplyReconciliation ==
    [][ C20_ApplyStep =>
          IF C20_Balance(form') < 0
          THEN ~result'.ok /\ UNCHANGED tables
          ELSE /\ result'.ok
               /\ result'.total = C20_Balance(form')
               /\ C20_StockIs(inventory', items', form'.item_var, C20_Balance(form')) ]_vars

\* ------------------------------------------------------------- C21
\* C21: when record_restock, record_loss_drawn or create_sale_with_items seeds
\* the day's old_stock of an item, the seed is the item's combined stock (legacy
\* quantity plus all container rows of the name) as it was before the call.
C21_Seeded(rc, item) == <<item, Today>> \in DOMAIN rc /\ rc[<<item, Today>>].has_old

C21_LedgerCall ==
    \/ calls'.restock = calls.restock + 1
    \/ calls'.loss = calls.loss + 1
    \/ calls'.sale = calls.sale + 1

C21_SameBaseline ==
    [][ C21_LedgerCall =>
          \A item \in Names :
              (~C21_Seeded(recon, item) /\ C21_Seeded(recon', item))
                  => recon'[<<item, Today>>].old_stock = Available(inventory, items, item) ]_vars

\* ------------------------------------------------------------- C22
\* C22: record_restock(item, q) with q >= 0 adds q to the item's stock (the
\* inventory row exists afterwards) and to the day's new_stock; record_loss_drawn
\* takes q from the stock and adds it to loss_drawn; a loss above the current
\* quantity and a negative q are rejected, and a rejected call changes no table.
C22_NewStock(rc, item) ==
    IF <<item, Today>> \in DOMAIN rc THEN rc[<<item, Today>>].new_stock ELSE 0

C22_RestockStep == calls'.restock = calls.restock + 1 /\ result'.op = "restock"

C22_LossStep == calls'.loss = calls.loss + 1 /\ result'.op = "loss"

C22_Restock ==
    LET item == result'.item
        q == result'.requested
    IN IF q < 0 THEN ~result'.ok /\ UNCHANGED tables
       ELSE /\ result'.ok
            /\ item \in DOMAIN inventory'
            /\ inventory'[item] = Legacy(inventory, item) + q
            /\ Available(inventory', items', item) = Available(inventory, items, item) + q
            /\ C22_NewStock(recon', item) = C22_NewStock(recon, item) + q
            /\ LossDrawn(recon', item, Today) = LossDrawn(recon, item, Today)

C22_Loss ==
    LET item == result'.item
        q == result'.requested
    IN IF q < 0 \/ q > Legacy(inventory, item) THEN ~result'.ok /\ UNCHANGED tables
       ELSE /\ result'.ok
            /\ Legacy(inventory', item) = Legacy(inventory, item) - q
            /\ Available(inventory', items', item) = Available(inventory, items, item) - q
            /\ LossDrawn(recon', item, Today) = LossDrawn(recon, item, Today) + q
            /\ C22_NewStock(recon', item) = C22_NewStock(recon, item)

C22_LedgerContract ==
    [][ (C22_RestockStep => C22_Restock) /\ (C22_LossStep => C22_Loss) ]_vars

\* A restock of 1 and then a loss of 1 were both accepted.
C22_Witness ==
    /\ result.op = "loss" /\ result.ok /\ result.requested = 1
    /\ calls.restock = 1
    /\ C22_NewStock(recon, "Candles") = 1
    /\ LossDrawn(recon, "Candles", Today) = 1

\* ------------------------------------------------------------- concurrent container calls
\* The container functions open no transaction before their SELECTs: the
\* connection reads in autocommit mode, and the write lock is taken only by the
\* UPDATE or INSERT that follows and held until commit. A call is therefore a
\* read step and a write step, with other connections' commits possible between.

\* The rows the SELECTs of a call return.
CallRead(d, call) ==
    IF call.op = "add_item"
    THEN LET rows == ItemInBag(d, call.bag_id, call.item_name)
         IN [bag_row |-> IF call.bag_id \in DOMAIN d.bags THEN <<d.bags[call.bag_id]>> ELSE None,
             row |-> IF rows # {}
                     THEN <<[id |-> First(rows), stock |-> d.items[First(rows)].stock]>>
                     ELSE None]
    ELSE IF call.op = "increment"
    THEN [row |-> IF call.item_id \in DOMAIN d.items
                  THEN <<[stock |-> d.items[call.item_id].stock]>> ELSE None]
    ELSE [row |-> IF /\ call.item_id \in DOMAIN d.items
                     /\ d.items[call.item_id].bag_id \in DOMAIN d.bags
                  THEN <<[stock |-> d.items[call.item_id].stock,
                          item_name |-> d.items[call.item_id].item_name,
                          bag_name |-> d.bags[d.items[call.item_id].bag_id]]>>
                  ELSE None]

\* The call raises or returns before it writes anything.
CallEndsAtRead(call, snap) ==
    IF call.op = "add_item"
    THEN call.item_name = "" \/ snap.bag_row = None
    ELSE IF call.op = "increment"
    THEN snap.row = None \/ snap.row[1].stock + call.change < 0
    ELSE snap.row = None \/ (call.price = None /\ call.stock = None)

\* UPDATE items SET ... WHERE id=?  (no such row: nothing changes)
SetItem(d, item_id, price, stock) ==
    IF item_id \notin DOMAIN d.items THEN d
    ELSE [d EXCEPT !.items[item_id].price = IF price = None THEN @ ELSE price[1],
                   !.items[item_id].stock = IF stock = None THEN @ ELSE stock[1]]

\* The statements of a call after its SELECTs, computed from what the SELECTs
\* returned, on the database as it is when the write lock is obtained.
CallWrite(d, call, snap) ==
    IF call.op = "add_item"
    THEN IF snap.row # None
         THEN LET item_id == snap.row[1].id
                  cur_stock == snap.row[1].stock
                  new_stock == cur_stock + call.amount
              IN LogStockHistory(SetItem(d, item_id, <<call.price>>, <<new_stock>>),
                                 item_id, call.item_name, snap.bag_row[1], cur_stock,
                                 new_stock, "RESTOCK", "admin", NoId, "")
         ELSE LET item_id == d.seq.items + 1
                  d1 == [d EXCEPT !.items = Put(@, item_id,
                             [bag_id |-> call.bag_id, item_name |-> call.item_name,
                              price |-> call.price, stock |-> call.amount]),
                                  !.seq.items = item_id]
              IN LogStockHistory(d1, item_id, call.item_name, snap.bag_row[1], 0,
                                 call.amount, "INITIAL", "admin", NoId, "")
    ELSE IF call.op = "increment"
    THEN SetItem(d, call.item_id, None, <<snap.row[1].stock + call.change>>)
    ELSE LET old_stock == snap.row[1].stock
             d1 == SetItem(d, call.item_id, call.price, call.stock)
         IN IF call.stock # None /\ call.stock[1] # old_stock
            THEN LogStockHistory(d1, call.item_id, snap.row[1].item_name,
                                 snap.row[1].bag_name, old_stock, call.stock[1],
                                 IF call.stock[1] > old_stock THEN "RESTOCK" ELSE "ADJUSTMENT",
                                 "admin", NoId, "")
            ELSE d1

\* The same call run with nothing between its statements.
CallTx(d, c, call) ==
    IF call.op = "add_item"
    THEN AddItemToBagTx(d, call.bag_id, call.item_name, call.amount, call.price, "admin")
    ELSE IF call.op = "increment"
    THEN IncrementItemStockTx(d, call.item_id, call.change)
    ELSE IF call.op = "update_item"
    THEN UpdateBagItemTx(d, call.item_id, call.price, call.stock, "admin")
    ELSE CreateSaleTx(d, c, call.cart, call.tx, "asc")

ConcAmounts == {1, 2}
ConcChanges == {-1, 1}
ConcStocks == {None, <<0>>, <<2>>}
ConcPrices == {None, <<60>>}

BagCalls ==
    {[op |-> "add_item", bag_id |-> 1, item_name |-> "Candles", amount |-> a, price |-> 50] : a \in ConcAmounts}
    \cup {[op |-> "increment", item_id |-> 1, change |-> ch] : ch \in ConcChanges}
    \cup {[op |-> "update_item", item_id |-> 1, price |-> p, stock |-> st] : p \in ConcPrices, st \in ConcStocks}

\* Connection c starts a container call and runs its SELECTs.
BagBegin(c, call) ==
    /\ pc[c] = "idle"
    /\ req' = [req EXCEPT ![c] = call]
    /\ LET snap == CallRead(DB, call) IN
         /\ sdata' = [sdata EXCEPT ![c] = snap]
         /\ IF CallEndsAtRead(call, snap)
            THEN /\ pc' = [pc EXCEPT ![c] = "failed"]
                 /\ result' = CallTx(DB, c, call).res
            ELSE /\ pc' = [pc EXCEPT ![c] = "read"]
                 /\ result' = Ok("select")
    /\ UNCHANGED <<tables, writer, calls, stock0, form, getdb>>

\* Connection c obtains the write lock, runs its writes and commits.
BagCommit(c) ==
    /\ pc[c] = "read"
    /\ writer = ""
    /\ Store(CallWrite(DB, req[c], sdata[c]))
    /\ result' = Ok(req[c].op)
    /\ pc' = [pc EXCEPT ![c] = "done"]
    /\ calls' = [calls EXCEPT !.bag = @ + 1]
    /\ UNCHANGED <<writer, req, sdata, stock0, form, getdb>>

\* Connection c runs create_sale_with_items: BEGIN IMMEDIATE comes before its
\* reads, so the call is one step among the container calls.
ConcSale(c, cart) ==
    /\ pc[c] = "idle"
    /\ writer = ""
    /\ req' = [req EXCEPT ![c] = [op |-> "sale", cart |-> cart, tx |-> c]]
    /\ LET r == CreateSaleTx(DB, c, cart, c, "asc") IN
         /\ Store(r.db)
         /\ result' = r.res
         /\ pc' = [pc EXCEPT ![c] = IF r.res.ok THEN "done" ELSE "failed"]
    /\ calls' = [calls EXCEPT !.sale = @ + 1]
    /\ UNCHANGED <<writer, sdata, stock0, form, getdb>>

\* SpecBagConc: two connections, each making one call on Candles of BagA, the
\* only stock of that name.
NextBagConc ==
    \E c \in Cashiers :
        \/ \E call \in BagCalls : BagBegin(c, call)
        \/ BagCommit(c)
        \/ \E cart \in CartsOf(LedgerNames, MaxSmallQty) : ConcSale(c, cart)

InitBagConc == Init /\ inventory = EmptyFn

SpecBagConc == InitBagConc /\ [][NextBagConc]_vars

\* ------------------------------------------------------------- C23
\* C23: when container calls and sales run concurrently on one container item,
\* no update is lost: once every call has ended, the item's stock is what the
\* committed calls give when run one after the other in some order.
C23_Store0 ==
    LET rows == (1 :> RowOf(1, stock0["Candles"]))
    IN [inventory |-> EmptyFn, bags |-> InitBags, items |-> rows,
        history |-> InitialHistory(rows, 1), sales |-> <<>>, sale_items |-> <<>>,
        recon |-> EmptyFn, adjustments |-> <<>>, seq |-> [bags |-> 2, items |-> 1]]

C23_Committed == {c \in Cashiers : pc[c] = "done"}

C23_Then(d, c) == CallTx(d, c, req[c]).db

C23_SerialStocks ==
    IF C23_Committed = {} THEN {stock0["Candles"]}
    ELSE IF C23_Committed = Cashiers
    THEN {C23_Then(C23_Then(C23_Store0, "c1"), "c2").items[1].stock,
          C23_Then(C23_Then(C23_Store0, "c2"), "c1").items[1].stock}
    ELSE {C23_Then(C23_Store0, CHOOSE c \in C23_Committed : TRUE).items[1].stock}

C23_NoLostUpdate ==
    (\A c \in Cashiers : pc[c] \in {"done", "failed"}) => items[1].stock \in C23_SerialStocks

\* ------------------------------------------------------------- C24
\* C24: add_item_to_bag on a bag that holds an item of the name sets its stock
\* to old stock + amount and its price to the given price and appends one
\* RESTOCK entry old -> new; otherwise it creates the item with stock = amount
\* and appends one INITIAL entry 0 -> amount; for a bag that does not exist it
\* is rejected and changes nothing.
C24_OneEntry(item_id, item_name, change_type, old_stock, new_stock) ==
    /\ Len(history') = Len(history) + 1
    /\ SubSeq(history', 1, Len(history)) = history
    /\ LET e == history'[Len(history')]
       IN /\ e.item_id = item_id /\ e.item_name = item_name
          /\ e.change_type = change_type
          /\ e.old_stock = old_stock /\ e.new_stock = new_stock

C24_Post(bag_id, item_name, amount, price) ==
    LET rows == {i \in DOMAIN items : items[i].bag_id = bag_id /\ items[i].item_name = item_name}
    IN IF bag_id \notin DOMAIN bags \/ item_name = ""
       THEN ~result'.ok /\ UNCHANGED tables
       ELSE IF rows # {}
       THEN \E i \in rows :
              /\ result'.ok /\ result'.id = i
              /\ items' = [items EXCEPT ![i].stock = items[i].stock + amount, ![i].price = price]
              /\ C24_OneEntry(i, item_name, "RESTOCK", items[i].stock, items[i].stock + amount)
       ELSE \E i \in DOMAIN items' \ DOMAIN items :
              /\ result'.ok /\ result'.id = i
              /\ DOMAIN items' = DOMAIN items \cup {i}
              /\ \A j \in DOMAIN items : items'[j] = items[j]
              /\ items'[i] = [bag_id |-> bag_id, item_name |-> item_name, price |-> price,
                              stock |-> amount]
              /\ C24_OneEntry(i, item_name, "INITIAL", 0, amount)

C24_AddStep == result'.op = "add_item" /\ calls'.bag = calls.bag + 1

C24_AddOrIncrement ==
    [][ C24_AddStep =>
          LET a == result'.cart[1]
          IN C24_Post(a.bag_id, a.item_name, a.amount, a.price) ]_vars

\* An add of 1 at a new price was merged into an existing item.
C24_Witness ==
    /\ result.op = "add_item" /\ result.ok /\ result.id \in DOMAIN items
    /\ items[result.id].price = -5
    /\ history # <<>>
    /\ LET e == history[Len(history)]
       IN e.item_id = result.id /\ e.change_type = "RESTOCK" /\ e.change_amount = 1

\* ------------------------------------------------------------- C25
\* C25: update_bag_item with a stock argument that differs from the item's
\* stock sets the stock and appends exactly one entry old -> new, RESTOCK when
\* the stock rose and ADJUSTMENT when it fell; with the price alone, or with the
\* stock the item already has, the stock stays and nothing is appended; for an
\* unknown item id it returns false and changes nothing.
C25_Post(item_id, price, stock) ==
    IF item_id \notin DOMAIN items
    THEN ~result'.ok /\ UNCHANGED tables
    ELSE IF stock # None /\ stock[1] # items[item_id].stock
    THEN /\ result'.ok
         /\ items'[item_id].stock = stock[1]
         /\ C24_OneEntry(item_id, items[item_id].item_name,
                         IF stock[1] > items[item_id].stock THEN "RESTOCK" ELSE "ADJUSTMENT",
                         items[item_id].stock, stock[1])
    ELSE /\ items'[item_id].stock = items[item_id].stock
         /\ history' = history

C25_UpdateItem ==
    [][ \A item_id \in ItemIds, price \in Optional(BagPrices), stock \in Optional(Amounts) :
          (result'.op = "update_item" /\ UpdateBagItem(item_id, price, stock))
              => C25_Post(item_id, price, stock) ]_vars

\* ------------------------------------------------------------- C26
\* C26: once delete_bag has succeeded no item row carries the deleted bag's id,
\* so no stock of the deleted bag counts as available or is deducted by a sale.
C26_DeleteStep == result'.op = "delete_bag" /\ result'.ok /\ calls'.bag = calls.bag + 1

C26_DeleteCascades ==
    [][ C26_DeleteStep => \A i \in DOMAIN items' : items'[i].bag_id # result'.id ]_vars

\* ------------------------------------------------------------- C27
\* C27: the container tier is drawn largest-first. Following the SALE entries of
\* a sale in order, the row an entry takes from holds, at that moment, at least
\* as much as every other row of the name (so a row is reduced only once every
\* fuller row is empty); a row is left non-empty at most once per cart line (each
\* row gives min(stock, remaining)); and the amounts taken from the rows of a
\* name sum to the quantity sold less what the legacy row gave.
C27_Entries == SubSeq(history', Len(history) + 1, Len(history'))

RECURSIVE C27_Replay(_, _, _)
C27_Replay(stocks, entries, k) ==
    IF k > Len(entries)
    THEN \A j \in DOMAIN items' : j \in DOMAIN stocks /\ stocks[j] = items'[j].stock
    ELSE LET e == entries[k] IN
         /\ e.change_type = "SALE"
         /\ e.item_id \in DOMAIN stocks
         /\ e.old_stock = stocks[e.item_id]
         /\ e.new_stock >= 0 /\ e.new_stock < e.old_stock
         /\ \A j \in DOMAIN stocks :
              items[j].item_name = e.item_name => stocks[j] <= e.old_stock
         /\ C27_Replay([stocks EXCEPT ![e.item_id] = e.new_stock], entries, k + 1)

C27_LeftNonEmpty(entries, n) ==
    Cardinality({k \in 1..Len(entries) : entries[k].item_name = n /\ entries[k].new_stock > 0})

C27_LinesOf(cart, n) == Cardinality({k \in 1..Len(cart) : cart[k].item = n})

C27_LargestFirst ==
    [][ (SaleCall /\ result'.ok) =>
          /\ C27_Replay([j \in DOMAIN items |-> items[j].stock], C27_Entries, 1)
          /\ \A n \in Names :
               /\ C27_LeftNonEmpty(C27_Entries, n) <= C27_LinesOf(result'.cart, n)
               /\ ContainerTotal(items, n) - ContainerTotal(items', n) =
                    CartQty(result'.cart, n) - (Legacy(inventory, n) - Legacy(inventory', n)) ]_vars

\* A sale emptied one Candles row and went on to take from a second one.
C27_Witness ==
    /\ result.op = "sale" /\ result.ok
    /\ Len(history) >= 2
    /\ LET e == history[Len(history) - 1]
           f == history[Len(history)]
       IN /\ e.change_type = "SALE" /\ f.change_type = "SALE"
          /\ e.sale_id = result.id /\ f.sale_id = result.id
          /\ e.item_name = "Candles" /\ f.item_name = "Candles"
          /\ e.item_id # f.item_id
          /\ e.new_stock = 0 /\ e.old_stock >= f.old_stock

\* ------------------------------------------------------------- stock summary
\* GROUP BY item_id, item_name, bag_name over the journal (every entry of a run
\* lies inside the window).
SummaryGroups(h) ==
    {<<h[k].item_id, h[k].item_name, h[k].bag_name>> : k \in 1..Len(h)}

InGroup(e, g) == e.item_id = g[1] /\ e.item_name = g[2] /\ e.bag_name = g[3]

Abs(x) == IF x < 0 THEN -x ELSE x

\* SUM(CASE WHEN change_amount < 0 THEN ABS(change_amount) ELSE 0 END)
RECURSIVE TotalRemoved(_, _)
TotalRemoved(h, g) ==
    IF h = <<>> THEN 0
    ELSE (IF InGroup(Head(h), g) /\ Head(h).change_amount < 0
          THEN Abs(Head(h).change_amount) ELSE 0) + TotalRemoved(Tail(h), g)

\* SUM(CASE WHEN change_amount > 0 THEN change_amount ELSE 0 END)
RECURSIVE TotalAdded(_, _)
TotalAdded(h, g) ==
    IF h = <<>> THEN 0
    ELSE (IF InGroup(Head(h), g) /\ Head(h).change_amount > 0
          THEN Head(h).change_amount ELSE 0) + TotalAdded(Tail(h), g)

\* get_stock_summary_by_item
GetStockSummaryByItem(d) ==
    {[item_id |-> g[1], item_name |-> g[2], bag_name |-> g[3],
      total_added |-> TotalAdded(d.history, g),
      total_removed |-> TotalRemoved(d.history, g),
      change_count |-> Cardinality({k \in 1..Len(d.history) : InGroup(d.history[k], g)})]
     : g \in SummaryGroups(d.history)}

\* ------------------------------------------------------------- C28
\* C28: in get_stock_summary_by_item every row's total_removed is the sum of the
\* magnitudes of the row's SALE entries and of its negative ADJUSTMENT entries.
RECURSIVE C28_SalesAndAdjustments(_, _)
C28_SalesAndAdjustments(h, r) ==
    IF h = <<>> THEN 0
    ELSE LET e == Head(h)
             counts == /\ InGroup(e, <<r.item_id, r.item_name, r.bag_name>>)
                       /\ \/ e.change_type = "SALE"
                          \/ e.change_type = "ADJUSTMENT" /\ e.change_amount < 0
         IN (IF counts THEN Abs(e.change_amount) ELSE 0) + C28_SalesAndAdjustments(Tail(h), r)

C28_TotalRemoved ==
    \A r \in GetStockSummaryByItem(DB) :
        r.total_removed = C28_SalesAndAdjustments(history, r)

\* ------------------------------------------------------------- bag names
RenameBag(bag_id, new_name) == BagCall(RenameBagTx(DB, bag_id, new_name))

RawNames == {"", " ", "BagA", " BagA ", "BagB", "BagC", " BagC "}

\* SpecNames: bags created, renamed and deleted in any order.
NextNames ==
    \/ \E bag_name \in RawNames : CreateBag(bag_name)
    \/ \E bag_id \in BagIds, new_name \in RawNames : RenameBag(bag_id, new_name)
    \/ \E bag_id \in BagIds, fk \in BOOLEAN : DeleteBag(bag_id, fk)

SpecNames == Init /\ [][NextNames]_vars

\* ------------------------------------------------------------- C29
\* C29: create_bag with a name a bag already has returns that bag's id and
\* creates no bag, so a second call with the same name returns the same id as
\* the first; and whatever create_bag and rename_bag calls are made, no two bags
\* have the same name.
C29_CreateStep == result'.op = "create_bag" /\ calls'.bag = calls.bag + 1

C29_Named(bs, name) == {b \in DOMAIN bs : bs[b] = name}

C29_UniqueNames == \A a \in DOMAIN bags : C29_Named(bags, bags[a]) = {a}

C29_Create ==
    LET name == Strip(result'.item) IN
    /\ C29_Named(bags, name) # {} =>
         /\ result'.ok
         /\ result'.id \in C29_Named(bags, name)
         /\ bags' = bags
    /\ (result.op = "create_bag" /\ result.ok /\ result.item = result'.item) =>
         /\ result'.ok /\ result'.id = result.id
         /\ bags' = bags

C29_BagNames == []C29_UniqueNames /\ [][C29_CreateStep => C29_Create]_vars

\* create_bag(" BagA ") gave back the id of BagA and made no bag.
C29_Witness ==
    /\ result.op = "create_bag" /\ result.ok /\ result.item = " BagA "
    /\ result.id \in DOMAIN bags /\ bags[result.id] = "BagA"
    /\ seq.bags = 2 /\ calls.bag = 2

\* ------------------------------------------------------------- C30
\* C30: in every reconciliation record new_stock and loss_drawn are >= 0; a
\* record is never removed and its new_stock never decreases; its loss_drawn
\* decreases only in a reject of an applied loss event of that item and day, and
\* then to the larger of 0 and the old figure less the event's quantity.
C30_NonNegative ==
    \A k \in DOMAIN recon : recon[k].new_stock >= 0 /\ recon[k].loss_drawn >= 0

C30_RejectOfApplied(k) ==
    /\ result'.op = "reject" /\ result'.ok
    /\ result'.id \in 1..Len(adjustments)
    /\ LET ev == adjustments[result'.id]
       IN /\ ev.applied
          /\ <<ev.item, ev.occ_date>> = k
          /\ recon'[k].loss_drawn =
               (IF recon[k].loss_drawn > ev.qty THEN recon[k].loss_drawn - ev.qty ELSE 0)

C30_Step ==
    \A k \in DOMAIN recon :
        /\ k \in DOMAIN recon'
        /\ recon'[k].new_stock >= recon[k].new_stock
        /\ recon'[k].loss_drawn < recon[k].loss_drawn => C30_RejectOfApplied(k)

C30_Monotonic == []C30_NonNegative /\ [][C30_Step]_vars

\* A restock of 1 is on record and a reject has taken the day's loss_drawn back to 0.
C30_Witness ==
    /\ result.op = "reject" /\ result.ok
    /\ result.id \in 1..Len(adjustments)
    /\ adjustments[result.id].status = "REJECTED" /\ adjustments[result.id].qty = 1
    /\ calls.loss = 0 /\ calls.restock = 1
    /\ <<"Candles", Today>> \in DOMAIN recon
    /\ recon[<<"Candles", Today>>].new_stock = 1
    /\ recon[<<"Candles", Today>>].loss_drawn = 0

\* ------------------------------------------------------------- C31
\* C31: a cart holding several lines of one item, each line's quantity positive
\* and within the item's combined stock but their sum above it, is rejected by
\* create_sale_with_items: the call raises, no sales row, sale_items row, stock
\* change, reconciliation row or journal entry of it exists afterwards, and no
\* stock figure is negative.
C31_LinesFor(cart, n) == {i \in 1..Len(cart) : cart[i].item = n}

C31_Repeated(cart) ==
    \E n \in Names :
        /\ Cardinality(C31_LinesFor(cart, n)) >= 2
        /\ \A i \in C31_LinesFor(cart, n) :
              cart[i].quantity > 0 /\ cart[i].quantity <= Available(inventory, items, n)
        /\ CartQty(cart, n) > Available(inventory, items, n)

C31_RepeatedItemRejected ==
    [][ (SaleCall /\ C31_Repeated(result'.cart)) =>
            /\ ~result'.ok
            /\ UNCHANGED tables
            /\ \A n \in DOMAIN inventory' : inventory'[n] >= 0
            /\ \A i \in DOMAIN items' : items'[i].stock >= 0 ]_vars

\* Two lines of Candles, 2 and 1, against a combined stock of 2 held in the legacy
\* row and a bag row: both lines pass the validation, the second deduction runs
\* dry, and the store is as it was.
C31_Witness ==
    /\ result.op = "sale" /\ ~result.ok /\ result.err = "DeductionFailed"
    /\ Len(result.cart) = 2
    /\ result.cart[1].item = "Candles" /\ result.cart[1].quantity = 2
    /\ result.cart[2].item = "Candles" /\ result.cart[2].quantity = 1
    /\ Legacy(inventory, "Candles") = 1 /\ ContainerTotal(items, "Candles") = 1
    /\ sales = <<>> /\ sale_items = <<>> /\ recon = EmptyFn
    /\ \A h \in 1..Len(history) : history[h].change_type = "INITIAL"

\* ------------------------------------------------------------- concurrent additions
\* SpecAddConc: two connections, each making one add_item_to_bag call on BagA,
\* for Candles (already in the bag) or RoseVeil (not yet in it).
AddCalls ==
    {[op |-> "add_item", bag_id |-> 1, item_name |-> n, amount |-> a, price |-> 50] : n \in Names, a \in ConcAmounts}

NextAddConc ==
    \E c \in Cashiers :
        \/ \E call \in AddCalls : BagBegin(c, call)
        \/ BagCommit(c)

SpecAddConc == InitBagConc /\ [][NextAddConc]_vars

\* ------------------------------------------------------------- C32
\* C32: when two add_item_to_bag calls for the same container and the same new
\* item name run concurrently, then in every interleaving, once both have
\* returned, the container holds exactly one item of that name and its stock is
\* the sum of the two amounts.
C32_RowsNamed(bag_id, item_name) ==
    {i \in DOMAIN items : items[i].bag_id = bag_id /\ items[i].item_name = item_name}

C32_BothAdded(item_name) ==
    \A c \in Cashiers : pc[c] = "done" /\ req[c].op = "add_item" /\ req[c].item_name = item_name

C32_OneItemPerName ==
    C32_BothAdded("RoseVeil") =>
        /\ Cardinality(C32_RowsNamed(1, "RoseVeil")) = 1
        /\ \A i \in C32_RowsNamed(1, "RoseVeil") :
              items[i].stock = req["c1"].amount + req["c2"].amount

\* ------------------------------------------------------------- C33
\* C33: in every reachable state an APPROVED loss event has applied = true and a
\* REJECTED one has applied = false, and the stock an event has taken from its
\* item is its quantity while applied is true and nothing while it is false:
\* every report, approve or reject call changes at most one event, and changes
\* each item's stock by exactly the quantity of the events of that item whose
\* applied flag it cleared minus the quantity of those whose flag it set.
C33_Flags ==
    \A e \in 1..Len(adjustments) :
        /\ adjustments[e].status = "APPROVED" => adjustments[e].applied
        /\ adjustments[e].status = "REJECTED" => ~adjustments[e].applied

RECURSIVE C33_AppliedQty(_, _)
C33_AppliedQty(adj, n) ==
    IF adj = <<>> THEN 0
    ELSE (IF Head(adj).item = n /\ Head(adj).applied THEN Head(adj).qty ELSE 0)
         + C33_AppliedQty(Tail(adj), n)

C33_Changed ==
    {e \in 1..Len(adjustments') : e > Len(adjustments) \/ adjustments'[e] # adjustments[e]}

C33_Step ==
    result'.op \in {"report", "approve", "reject"} =>
        /\ Cardinality(C33_Changed) <= 1
        /\ Len(adjustments') >= Len(adjustments)
        /\ items' = items
        /\ \A n \in Names :
              Legacy(inventory', n) - Legacy(inventory, n)
                = C33_AppliedQty(adjustments, n) - C33_AppliedQty(adjustments', n)

C33_AppliedFlag == []C33_Flags /\ [][C33_Step]_vars

\* An approved event: APPROVED with applied = true, and, no sale, restock or
\* direct loss having run, the item's stock is its opening stock less the
\* event's quantity.
C33_Witness ==
    /\ result.op = "approve" /\ result.ok
    /\ calls.sale = 0 /\ calls.restock = 0 /\ calls.loss = 0
    /\ Len(adjustments) = 1
    /\ adjustments[1].status = "APPROVED" /\ adjustments[1].applied
    /\ Available(inventory, items, "Candles") = stock0["Candles"] - adjustments[1].qty

\* ------------------------------------------------------------- C34
\* C34: report_loss_event with apply_immediately = false and a positive quantity
\* appends a PENDING event with applied = false and leaves the legacy stock,
\* the container items, the reconciliation records and the journal as they
\* were; a reject call on an event that is PENDING with applied = false marks
\* it REJECTED (applied still false) and also changes no stock figure and no
\* reconciliation record.
C34_StockUnchanged ==
    /\ inventory' = inventory
    /\ items' = items
    /\ recon' = recon
    /\ history' = history

C34_Reported(item, qty) ==
    /\ result'.ok
    /\ adjustments' = Append(adjustments,
           [item |-> item, qty |-> qty, occ_date |-> Today, status |-> "PENDING",
            applied |-> FALSE])
    /\ C34_StockUnchanged

C34_RejectOfUnapplied(e) ==
    /\ result'.op = "reject" /\ result'.id = e
    /\ adjustments[e].status = "PENDING" /\ ~adjustments[e].applied

C34_Rejected(e) ==
    /\ result'.ok
    /\ adjustments' = [adjustments EXCEPT ![e].status = "REJECTED"]
    /\ C34_StockUnchanged

C34_DeferredReport ==
    [][ /\ \A item \in LedgerNames, qty \in 1..MaxSmallQty :
             ReportLossEvent(item, qty, FALSE) => C34_Reported(item, qty)
        /\ \A e \in 1..Len(adjustments) :
             C34_RejectOfUnapplied(e) => C34_Rejected(e) ]_vars

\* A loss of 1 reported without application and then rejected: the event is
\* REJECTED with applied = false, no reconciliation record exists and the stock
\* is the opening stock.
C34_Witness ==
    /\ result.op = "reject" /\ result.ok /\ result.err = ""
    /\ calls.report = 1 /\ calls.sale = 0 /\ calls.restock = 0 /\ calls.loss = 0
    /\ Len(adjustments) = 1
    /\ adjustments[1].status = "REJECTED" /\ ~adjustments[1].applied
    /\ adjustments[1].qty = 1
    /\ recon = EmptyFn
    /\ Available(inventory, items, "Candles") = stock0["Candles"]

\* ------------------------------------------------------------- stock changes of container items
\* SpecJournal: add_item_to_bag, update_bag_item, increment_item_stock and one
\* sale, in any order, on a store with Candles in the legacy table and in BagA.
NextJournal ==
    \/ \E bag_id \in BagIds, item_name \in ItemNames, amount \in Amounts,
          price \in BagPrices : AddItemToBag(bag_id, item_name, amount, price)
    \/ \E item_id \in ItemIds, change \in Amounts : IncrementItemStock(item_id, change)
    \/ \E item_id \in ItemIds, price \in Optional(BagPrices),
          stock \in Optional(Amounts) : UpdateBagItem(item_id, price, stock)
    \/ \E q \in 1..MaxSmallQty : BagSale(q)

SpecJournal == Init /\ [][NextJournal]_vars

\* ------------------------------------------------------------- C35
\* C35: for every container item that has at least one journal entry, the
\* new_stock of its most recent entry is the item's current stock, and each of
\* its entries' old_stock is the new_stock of its previous entry, in every
\* state reached by add_item_to_bag, update_bag_item, increment_item_stock and
\* create_sale_with_items.
C35_EntriesOf(i) == {h \in 1..Len(history) : history[h].item_id = i}

C35_Prev(i, h) == {g \in C35_EntriesOf(i) : g < h}

C35_JournalTracksStock ==
    \A i \in DOMAIN items :
        C35_EntriesOf(i) # {} =>
            /\ history[MaxId(C35_EntriesOf(i))].new_stock = items[i].stock
            /\ \A h \in C35_EntriesOf(i) :
                  C35_Prev(i, h) # {} =>
                      history[h].old_stock = history[MaxId(C35_Prev(i, h))].new_stock

\* ------------------------------------------------------------- C36
\* C36: record_restock, record_loss_drawn, report_loss_event, approve_loss_event
\* and reject_loss_event never change a container item and never append a
\* journal entry, and they judge sufficiency against the legacy quantity alone:
\* a direct loss, an immediately applied report or the approval of an unapplied
\* event is refused, changing nothing, exactly when its quantity exceeds the
\* legacy quantity, whatever the containers hold; so a loss on an item stocked
\* only in containers is refused as exceeding current stock.
C36_LedgerStep == result'.op \in {"restock", "loss", "report", "approve", "reject"}

C36_Refused ==
    /\ ~result'.ok /\ result'.err = "InsufficientStock"
    /\ result'.available = Legacy(inventory, result'.item)
    /\ UNCHANGED tables

C36_DirectLoss ==
    (result'.op = "loss" /\ result'.requested >= 0) =>
        IF result'.requested > Legacy(inventory, result'.item)
        THEN C36_Refused ELSE result'.ok

C36_AppliedReport ==
    \A item \in LedgerNames, qty \in 1..MaxSmallQty :
        ReportLossEvent(item, qty, TRUE) =>
            IF qty > Legacy(inventory, item) THEN C36_Refused ELSE result'.ok

C36_Approval ==
    \A e \in 1..Len(adjustments) :
        ( /\ result'.op = "approve" /\ result'.id = e
          /\ adjustments[e].status # "APPROVED" /\ ~adjustments[e].applied ) =>
            IF adjustments[e].qty > Legacy(inventory, adjustments[e].item)
            THEN C36_Refused ELSE result'.ok

C36_LegacyOnly ==
    [][ C36_LedgerStep =>
            /\ items' = items
            /\ history' = history
            /\ C36_DirectLoss
            /\ C36_AppliedReport
            /\ C36_Approval ]_vars

\* Candles stocked only in BagA (1 unit, nothing in the legacy table): a direct
\* loss of 1 is refused against an available quantity of 0.
C36_Witness ==
    /\ result.op = "loss" /\ ~result.ok /\ result.err = "InsufficientStock"
    /\ result.requested = 1 /\ result.available = 0
    /\ Legacy(inventory, "Candles") = 0
    /\ ContainerTotal(items, "Candles") = 1
    /\ recon = EmptyFn

\* ------------------------------------------------------------- C37
\* C37: once the reconciliation record of an item and day has a non-null
\* old_stock, no later sale, restock, direct loss, loss report, approval or
\* rejection changes that old_stock (or removes the record).
C37_WriteOnce ==
    [][ \A k \in DOMAIN recon :
          recon[k].has_old =>
              /\ k \in DOMAIN recon'
              /\ recon'[k].has_old
              /\ recon'[k].old_stock = recon[k].old_stock ]_vars

\* A restock of 1 on an item with no stock at all seeds old_stock = 0; the sale
\* of that unit, which would seed 1, leaves old_stock at 0.
C37_Witness ==
    /\ result.op = "sale" /\ result.ok
    /\ stock0["Candles"] = 0
    /\ calls.restock = 1
    /\ <<"Candles", Today>> \in DOMAIN recon
    /\ recon[<<"Candles", Today>>].has_old
    /\ recon[<<"Candles", Today>>].old_stock = 0
    /\ recon[<<"Candles", Today>>].new_stock = 1

\* ------------------------------------------------------------- connection acquisition
\* get_db (main.py): up to max_retries passes of a loop that opens the store,
\* sets the pragmas and runs SELECT 1; what sqlite3 does on each pass is the
\* environment's choice.  getdb.opened counts the sqlite3.connect(DB_NAME)
\* calls, getdb.errors the exceptions caught, getdb.conn the database of the
\* connection returned.
max_retries == 3

DB_NAME == "bar_sales.db"

\* What a pass can meet: success, an sqlite3.Error, or another exception.
Outcomes == {"ok", "sqlite3.Error", "Exception"}

\* The call begins: for attempt in range(max_retries).
GetDb ==
    /\ getdb.pc = "idle"
    /\ getdb' = [getdb EXCEPT !.pc = "loop"]
    /\ result' = Ok("get_db")
    /\ UNCHANGED <<tables, conns, calls, stock0, form>>

\* One pass of the loop: return conn, or sleep and continue, or on the last
\* pass go to the fallbacks of the two except branches.
GetDbAttempt(outcome) ==
    /\ getdb.pc = "loop"
    /\ getdb' =
         IF outcome = "ok"
         THEN [getdb EXCEPT !.pc = "returned", !.opened = @ + 1, !.conn = DB_NAME]
         ELSE IF getdb.attempt < max_retries - 1
         THEN [getdb EXCEPT !.attempt = @ + 1, !.opened = @ + 1,
                            !.errors = Append(@, outcome)]
         ELSE IF outcome = "sqlite3.Error"
         THEN [getdb EXCEPT !.pc = "minimal", !.opened = @ + 1,
                            !.errors = Append(@, outcome)]
         ELSE [getdb EXCEPT !.pc = "returned", !.opened = @ + 1, !.conn = ":memory:",
                            !.errors = Append(@, outcome)]
    /\ result' = Ok("get_db")
    /\ UNCHANGED <<tables, conns, calls, stock0, form>>

\* "Last attempt failed, create minimal connection": one more connect to
\* DB_NAME, and on an sqlite3.Error the in-memory database.
GetDbMinimal(outcome) ==
    /\ getdb.pc = "minimal"
    /\ getdb' =
         IF outcome = "ok"
         THEN [getdb EXCEPT !.pc = "returned", !.opened = @ + 1, !.conn = DB_NAME]
         ELSE [getdb EXCEPT !.pc = "returned", !.opened = @ + 1, !.conn = ":memory:",
                            !.errors = Append(@, outcome)]
    /\ result' = Ok("get_db")
    /\ UNCHANGED <<tables, conns, calls, stock0, form>>

NextGetDb ==
    \/ GetDb
    \/ \E outcome \in Outcomes : GetDbAttempt(outcome)
    \/ \E outcome \in {"ok", "sqlite3.Error"} : GetDbMinimal(outcome)

SpecGetDb == Init /\ [][NextGetDb]_vars

\* ------------------------------------------------------------- C38
\* C38: get_db opens the store at most 3 times, and when every attempt has
\* failed the failure reaches the caller: get_db never returns a connection
\* to anything but the store, so a call that has returned after failures only
\* holds a connection to DB_NAME obtained by a successful attempt.
C38_AllFailed == getdb.opened > 0 /\ Len(getdb.errors) = getdb.opened

C38_Propagates ==
    /\ getdb.opened <= max_retries
    /\ getdb.pc = "returned" => getdb.conn = DB_NAME /\ ~C38_AllFailed

====
